---- MODULE Spec2Model ----
(***************************************************************************)
(* A model of PiGoSAT, the Go facade over the PicoSAT engine.              *)
(*                                                                         *)
(* Spec      one goroutine driving a session; every public method is one   *)
(*           action, the engine is a record passed through its C calls.    *)
(* SpecConc  several goroutines sharing one session; methods are split at  *)
(*           the points where the sync.RWMutex is acquired and released.   *)
(***************************************************************************)
EXTENDS Integers, FiniteSets, Sequences, Bags, TLC

\* Bounds of the model.
MaxClauses == 2
MaxFormulaLen == 2
NumThreads == 2
MaxData == 4

\* Status values (C.PICOSAT_UNKNOWN, C.PICOSAT_SATISFIABLE, C.PICOSAT_UNSATISFIABLE).
Unknown == 0
Satisfiable == 10
Unsatisfiable == 20

VARIABLES
    p,                           \* Pigosat.p: "live" or "nil"
    couldHaveFailedAssumptions,  \* Pigosat.couldHaveFailedAssumptions
    eng,                         \* the PicoSAT object behind p.p
    propLimit,                   \* Options.PropagationLimit > 0
    lastCall,                    \* the last public call and what it returned
    lock,                        \* Pigosat.lock, a sync.RWMutex
    pc,                          \* per goroutine: position in its call
    op,                          \* per goroutine: the method it is calling
    outcome,                     \* per goroutine: how its last call ended
    step,                        \* per goroutine: the next callee of its method
    resets,                      \* number of picosat_reset calls
    resetOnNil,                  \* picosat_reset was called with a nil handle
    armed,                       \* a finalizer is set on the session
    reachable,                   \* the session is still referenced
    given,                       \* the Formula last passed to AddClauses
    forwarded,                   \* the arrays that call handed to the engine
    emptyAdded,                  \* AddClauses was passed an empty Clause
    yielded,                     \* what the calls of a loop have returned
    bridge,                      \* one call of cFileWriterWrapper
    minimize,                    \* one call of Minimize
    conv                         \* one call of litArrayToSlice

vars == <<p, couldHaveFailedAssumptions, eng, propLimit, lastCall,
          lock, pc, op, outcome, step, resets, resetOnNil, armed, reachable,
          given, forwarded, emptyAdded, yielded, bridge, minimize, conv>>

concVars ==
    <<lock, pc, op, outcome, step, resets, resetOnNil, armed, reachable, bridge,
      minimize, conv>>

histVars == <<given, forwarded, emptyAdded, yielded>>

Threads == 1..NumThreads

Abs(x) == IF x < 0 THEN -x ELSE x
Max(a, b) == IF a > b THEN a ELSE b

(***************************************************************************)
(* The engine.  PicoSAT's C source is not part of the facade; the engine   *)
(* is modelled from the documentation the facade quotes and relies on.     *)
(***************************************************************************)

\* picosat_init
EngineInit ==
    [clauses |-> {}, added |-> 0, vars |-> 0, als |-> {}, state |-> "READY",
     res |-> Unknown, mtcls |-> FALSE, failed |-> {}, aborted |-> FALSE,
     trace |-> FALSE]

\* picosat_enable_trace_generation
PicosatEnableTraceGeneration(e) == [e EXCEPT !.trace = TRUE]

Assignments(n) == [1..n -> BOOLEAN]
LitTrue(a, l) == IF l > 0 THEN a[l] ELSE ~a[-l]
Models(cls, asm, n) ==
    {a \in Assignments(n) : /\ \A c \in cls : \E l \in c : LitTrue(a, l)
                            /\ \A l \in asm : LitTrue(a, l)}

\* Assumptions stay valid after picosat_sat until the next picosat_add,
\* picosat_assume or picosat_sat, which drops them.
ResetIncremental(e) ==
    IF e.state # "READY"
    THEN [e EXCEPT !.state = "READY", !.als = {}, !.failed = {}]
    ELSE e

MaxAbs(S) == IF S = {} THEN 0 ELSE CHOOSE m \in {Abs(l) : l \in S} : \A l \in S : Abs(l) <= m

\* The literals of a 0-terminated C array, up to the first 0.
RECURSIVE LitsBeforeZero(_, _)
LitsBeforeZero(lits, i) ==
    IF i > Len(lits) \/ lits[i] = 0 THEN {}
    ELSE {lits[i]} \cup LitsBeforeZero(lits, i + 1)

\* The literals the engine holds as unit clauses.  It drops their negations
\* from a clause that is added, so that a clause of such literals only is
\* added as the empty clause (Print shows it: a 0 line after -1 0 and 1 0).
Units(e) == {l \in UNION e.clauses : {l} \in e.clauses}

\* picosat_add_lits: one clause, read up to its terminator.
PicosatAddLits(e, lits) ==
    LET e1 == ResetIncremental(e)
        c == LitsBeforeZero(lits, 1)
    IN [e1 EXCEPT !.clauses = @ \cup {c},
                  !.added = @ + 1,
                  !.vars = Max(@, MaxAbs(c)),
                  !.mtcls = @ \/ \A l \in c : -l \in Units(e1)]

\* picosat_add(p, 0): the terminator alone, i.e. the empty clause.
PicosatAddZero(e) == PicosatAddLits(e, <<0>>)

\* picosat_assume
PicosatAssume(e, lit) ==
    LET e1 == ResetIncremental(e)
    IN [e1 EXCEPT !.als = @ \cup {lit}, !.vars = Max(@, Abs(lit))]

\* The outcomes picosat_sat may produce on an engine whose stale
\* assumptions were already dropped: a model, a set of failed assumptions,
\* or Unknown when a propagation limit is configured and there is work to
\* limit (an engine that holds the empty clause answers at once).
SatOutcomes(e, limited) ==
    LET ms == Models(e.clauses, e.als, e.vars)
    IN (IF limited /\ ~e.mtcls THEN {[status |-> Unknown, model |-> <<>>, failed |-> {}]} ELSE {})
       \cup {[status |-> Satisfiable, model |-> m, failed |-> {}] : m \in ms}
       \cup {[status |-> Unsatisfiable, model |-> <<>>, failed |-> F] :
                F \in {G \in SUBSET e.als :
                          ms = {} /\ Models(e.clauses, G, e.vars) = {}}}

StateOf(status) ==
    IF status = Satisfiable THEN "SAT"
    ELSE IF status = Unsatisfiable THEN "UNSAT" ELSE "UNKNOWN"

\* picosat_sat, given the outcome it reaches.
PicosatSat(e, out) ==
    [e EXCEPT !.state = StateOf(out.status),
              !.res = out.status,
              !.failed = out.failed,
              !.mtcls = @ \/ (out.status = Unsatisfiable
                              /\ Models(e.clauses, {}, e.vars) = {})]

\* picosat_res: the result of the last picosat_sat call.
PicosatRes(e) == e.res

\* picosat_variables, picosat_added_original_clauses, picosat_inconsistent
PicosatVariables(e) == e.vars
PicosatAddedOriginalClauses(e) == e.added
\* An engine that never reports inconsistency.
PicosatInconsistentNever(e) == FALSE

PicosatInconsistent(e) == e.mtcls

\* A fixed order for the literals of a set, as a 0-terminated array.
RECURSIVE LitArray(_)
LitArray(S) ==
    IF S = {} THEN <<0>>
    ELSE LET l == CHOOSE x \in S : \A y \in S :
                     Abs(x) < Abs(y) \/ (Abs(x) = Abs(y) /\ x >= y)
         IN <<l>> \o LitArray(S \ {l})

\* picosat_failed_assumption / picosat_failed_assumptions abort the process
\* unless the engine is in its UNSAT state.
PicosatFailedAborts(e) == e.state # "UNSAT"
PicosatFailedAssumption(e, lit) == lit \in e.failed
PicosatFailedAssumptions(e) == LitArray(e.failed)

\* picosat_write_clausal_core, picosat_write_compact_trace and
\* picosat_write_extended_trace abort the process unless the engine is in
\* its UNSAT state and trace generation was enabled.
PicosatWriteAborts(e) == e.state # "UNSAT" \/ ~e.trace

\* The maximal subsets of the assumptions that are satisfiable together with
\* the clauses (the empty subset when nothing is).
MaximalSatisfiableSubsets(e) ==
    LET ok == {M \in SUBSET e.als : Models(e.clauses, M, e.vars) # {}}
    IN IF ok = {} THEN {{}}
       ELSE {M \in ok : \A N \in ok : ~(M \subseteq N /\ M # N)}

\* The result the engine's last internal picosat_sat may leave behind.  The
\* search tries the assumptions one after the other, each together with the
\* ones kept so far, and keeps every assumption a model found on the way
\* makes true.  The last trial fails when it is on an assumption outside M;
\* it succeeds when it is on one inside M that no earlier model made true.
MssResults(e, M) ==
    IF e.als = {} THEN {e.res}
    ELSE (IF M # e.als THEN {Unsatisfiable} ELSE {})
         \cup (IF \/ M = e.als
                  \/ \E a \in M :
                        IF M = {a}
                        THEN \A b \in e.als \ M : Models(e.clauses, {b}, e.vars) = {}
                        ELSE \E m \in Models(e.clauses, M \ {a}, e.vars) : ~LitTrue(m, a)
               THEN {Satisfiable} ELSE {})

\* picosat_maximal_satisfiable_subset_of_assumptions: solves internally, then
\* assumes all the assumptions again.
PicosatMss(e, M, r) ==
    [e EXCEPT !.state = "READY",
              !.res = r,
              !.failed = {},
              !.mtcls = @ \/ (e.als # {} /\ Models(e.clauses, {}, e.vars) = {})]

\* picosat_next_maximal_satisfiable_subset_of_assumptions: as above, and adds
\* the clause that rules M out: one of the assumptions outside M must hold.
\* found tells whether the internal solves left every literal of that clause
\* false, in which case it is added as the empty clause.
PicosatNextMss(e, M, r, found) ==
    LET e1 == PicosatMss(e, M, r)
        c == e.als \ M
    IN [e1 EXCEPT !.clauses = @ \cup {c},
                  !.added = @ + 1,
                  !.mtcls = @ \/ found \/ \A l \in c : -l \in Units(e1)]

\* The internal solves can leave every literal of the clause false only if
\* the clauses cannot be satisfied with it.
NextMssFound(e, M) ==
    {FALSE} \cup (IF Models(e.clauses \cup {e.als \ M}, {}, e.vars) = {}
                  THEN {TRUE} ELSE {})

\* The same call on clauses that cannot be satisfied, when the internal
\* picosat_sat derives the empty clause: the engine extracts no subset, adds
\* no clause and returns a zero pointer.
PicosatNextMssInconsistent(e) ==
    [e EXCEPT !.state = "READY", !.res = Unsatisfiable, !.failed = {},
              !.mtcls = TRUE]

(***************************************************************************)
(* The facade, one goroutine (Spec).                                       *)
(***************************************************************************)

\* A Formula is a slice of Clauses and a Clause a slice of Literals: a
\* window (off, len) with capacity cap on a backing array.  mem holds the
\* backing arrays of all the Clauses of one Formula, end to end.
RECURSIVE Concat(_, _)
Concat(cs, i) == IF i > Len(cs) THEN <<>> ELSE cs[i] \o Concat(cs, i + 1)

RECURSIVE Offset(_, _)
Offset(cs, i) == IF i <= 1 THEN 0 ELSE Offset(cs, i - 1) + Len(cs[i - 1])

\* Formula{Clause{...}, Clause{...}}: every Clause fills an array of its own.
Separate(cs) ==
    [mem |-> Concat(cs, 1),
     hdr |-> [i \in 1..Len(cs) |->
                [off |-> Offset(cs, i), len |-> Len(cs[i]), cap |-> Len(cs[i])]]]

\* Formula{a[0:i], a[i:j], ...}: the Clauses are consecutive windows on one
\* array a, each with capacity up to the end of a.
Shared(cs) ==
    [mem |-> Concat(cs, 1),
     hdr |-> [i \in 1..Len(cs) |->
                [off |-> Offset(cs, i), len |-> Len(cs[i]),
                 cap |-> Len(Concat(cs, 1)) - Offset(cs, i)]]]

\* The Literals of the Clause with header h, as mem holds them now.
ClauseAt(mem, h) == SubSeq(mem, h.off + 1, h.off + h.len)

\* What one goroutine may pass in.
ClauseInputs == {<<>>, <<1>>, <<-1, 2>>, <<-2, 0>>}
ClauseLists(inputs) == UNION {[1..n -> inputs] : n \in 0..MaxFormulaLen}
FormulaInputs == {Separate(cs) : cs \in ClauseLists(ClauseInputs)}
SlicedInputs == {Shared(cs) : cs \in ClauseLists(ClauseInputs)}
LiteralInputs == {1, -1, 2}
QueryInputs == {0, 1, 2}
SolutionInputs ==
    {s \in UNION {[0..m -> BOOLEAN] : m \in (-1)..2} :
        0 \in DOMAIN s => ~s[0]}

\* TRUE when AddClauses, Assume or Solve has been called since the last Solve
\* that returned Unsatisfiable (or none has returned it yet).
Invalidated(o, how, ret) ==
    IF o = "Solve" THEN ret.status # Unsatisfiable
    ELSE IF o \in {"AddClauses", "Assume"} THEN TRUE
    ELSE lastCall.invalidated

\* A call record: the method, its argument, what it returned, and the flag,
\* picosat_res and engine state it found on entry.
Call(o, arg, how, ret, queried) ==
    [op |-> o, arg |-> arg, how |-> how, ret |-> ret, queried |-> queried,
     invalidated |-> Invalidated(o, how, ret),
     flagBefore |-> couldHaveFailedAssumptions,
     resBefore |-> PicosatRes(eng),
     stateBefore |-> eng.state,
     addedBefore |-> PicosatAddedOriginalClauses(eng)]

\* The part of ready seen by a single caller: the handle must not be nil,
\* and a process the engine aborted runs nothing more.
Ready == p = "live" /\ ~eng.aborted

\* clause = append(clause, 0): with spare capacity the 0 is written into the
\* backing array right after the Clause, otherwise into a fresh copy.
AppendZeroMem(mem, h) ==
    IF h.cap > h.len THEN [mem EXCEPT ![h.off + h.len + 1] = 0] ELSE mem

\* One iteration of the loop of AddClauses on the Clause with header h: st
\* is the flag, the engine, the backing arrays and the arrays forwarded.
AddClausesStepFlagAfterContinue(st, h) ==
    LET clause == ClauseAt(st.mem, h)
    IN IF Len(clause) = 0
       THEN [st EXCEPT !.eng = PicosatAddZero(st.eng),
                       !.fwd = Append(@, <<0>>)]
       ELSE IF clause[Len(clause)] # 0
       THEN [st EXCEPT !.flag = FALSE,
                       !.mem = AppendZeroMem(st.mem, h),
                       !.eng = PicosatAddLits(st.eng, Append(clause, 0)),
                       !.fwd = Append(@, Append(clause, 0))]
       ELSE [st EXCEPT !.flag = FALSE,
                       !.eng = PicosatAddLits(st.eng, clause),
                       !.fwd = Append(@, clause)]

AddClausesStepSkipEmpty(st, h) ==
    LET clause == ClauseAt(st.mem, h)
    IN IF Len(clause) = 0
       THEN [st EXCEPT !.flag = FALSE, !.fwd = Append(@, <<>>)]
       ELSE IF clause[Len(clause)] # 0
       THEN [st EXCEPT !.flag = FALSE,
                       !.mem = AppendZeroMem(st.mem, h),
                       !.eng = PicosatAddLits(st.eng, Append(clause, 0)),
                       !.fwd = Append(@, Append(clause, 0))]
       ELSE [st EXCEPT !.flag = FALSE,
                       !.eng = PicosatAddLits(st.eng, clause),
                       !.fwd = Append(@, clause)]

AddClausesStep(st, h) ==
    LET clause == ClauseAt(st.mem, h)
    IN IF Len(clause) = 0
       THEN [st EXCEPT !.flag = FALSE,
                       !.eng = PicosatAddZero(st.eng),
                       !.fwd = Append(@, <<0>>)]
       ELSE IF clause[Len(clause)] # 0
       THEN [st EXCEPT !.flag = FALSE,
                       !.mem = AppendZeroMem(st.mem, h),
                       !.eng = PicosatAddLits(st.eng, Append(clause, 0)),
                       !.fwd = Append(@, Append(clause, 0))]
       ELSE [st EXCEPT !.flag = FALSE,
                       !.eng = PicosatAddLits(st.eng, clause),
                       !.fwd = Append(@, clause)]

RECURSIVE AddClausesLoop(_, _, _)
AddClausesLoop(st, hdr, i) ==
    IF i > Len(hdr) THEN st
    ELSE AddClausesLoop(AddClausesStep(st, hdr[i]), hdr, i + 1)

\* The whole loop, from the state the call finds.
AddClausesRun(clauses) ==
    AddClausesLoop([flag |-> couldHaveFailedAssumptions, eng |-> eng,
                    mem |-> clauses.mem, fwd |-> <<>>],
                   clauses.hdr, 1)

AddClauses(clauses) ==
    /\ Ready
    /\ PicosatAddedOriginalClauses(eng) + Len(clauses.hdr) <= MaxClauses
    /\ LET st == AddClausesRun(clauses)
       IN /\ couldHaveFailedAssumptions' = st.flag
          /\ eng' = st.eng
    /\ lastCall' = Call("AddClauses", Len(clauses.hdr), "return", "none", FALSE)
    /\ UNCHANGED <<p, propLimit>>

\* The flag Solve leaves behind: cleared on entry, set again on Unsatisfiable.
SolveFlagNoReset(flag, status) ==
    IF status = Unsatisfiable THEN TRUE ELSE flag

SolveFlag(flag, status) ==
    LET cleared == FALSE
    IN IF status = Unsatisfiable THEN TRUE ELSE cleared

\* The Solution Solve assembles from picosat_deref, nil unless Satisfiable.
SolveSolutionNegated(e, out) ==
    IF out.status = Satisfiable
    THEN [i \in 0..PicosatVariables(e) |-> IF i = 0 THEN FALSE ELSE ~out.model[i]]
    ELSE <<>>

SolveSolutionNoSlotZero(e, out) ==
    IF out.status = Satisfiable
    THEN [i \in 1..PicosatVariables(e) |-> out.model[i]]
    ELSE <<>>

SolveSolution(e, out) ==
    IF out.status = Satisfiable
    THEN [i \in 0..PicosatVariables(e) |-> IF i = 0 THEN FALSE ELSE out.model[i]]
    ELSE <<>>

\* The engine Solve leaves behind: picosat_sat is its only call that
\* changes the engine.
SolveEngineBlocking(e, out) ==
    IF out.status = Satisfiable
    THEN PicosatAddLits(PicosatSat(e, out),
            [i \in 1..(PicosatVariables(e) + 1) |->
                IF i = PicosatVariables(e) + 1 THEN 0
                ELSE IF out.model[i] THEN -i ELSE i])
    ELSE PicosatSat(e, out)

SolveEngine(e, out) == PicosatSat(e, out)

Solve ==
    /\ Ready
    /\ LET e1 == ResetIncremental(eng)
       IN \E out \in SatOutcomes(e1, propLimit) :
            /\ eng' = SolveEngine(e1, out)
            /\ couldHaveFailedAssumptions' =
                   SolveFlag(couldHaveFailedAssumptions, out.status)
            /\ lastCall' = Call("Solve", "none", "return",
                   [status |-> out.status, solution |-> SolveSolution(e1, out)],
                   FALSE)
    /\ UNCHANGED <<p, propLimit>>

\* Res that answers as a session does on which Solve was never called.
ResUnknown ==
    /\ Ready
    /\ lastCall' = Call("Res", "none", "return", Unknown, FALSE)
    /\ UNCHANGED <<p, propLimit, couldHaveFailedAssumptions, eng>>

\* Res
Res ==
    /\ Ready
    /\ lastCall' = Call("Res", "none", "return", PicosatRes(eng), FALSE)
    /\ UNCHANGED <<p, propLimit, couldHaveFailedAssumptions, eng>>

\* Variables
Variables ==
    /\ Ready
    /\ lastCall' = Call("Variables", "none", "return", PicosatVariables(eng), FALSE)
    /\ UNCHANGED <<p, propLimit, couldHaveFailedAssumptions, eng>>

\* AddedOriginalClauses
AddedOriginalClauses ==
    /\ Ready
    /\ lastCall' = Call("AddedOriginalClauses", "none", "return",
                        PicosatAddedOriginalClauses(eng), FALSE)
    /\ UNCHANGED <<p, propLimit, couldHaveFailedAssumptions, eng>>

\* blocksol: the clause negating sol, then picosat_add_lits.
BlockingClauseSameSigns(n, sol) ==
    [i \in 1..(n + 1) |-> IF i = n + 1 THEN 0 ELSE IF sol[i] THEN i ELSE -i]

BlockingClause(n, sol) ==
    [i \in 1..(n + 1) |-> IF i = n + 1 THEN 0 ELSE IF sol[i] THEN -i ELSE i]

blocksol(e, sol) ==
    [flag |-> FALSE,
     eng |-> PicosatAddLits(e, BlockingClause(PicosatVariables(e), sol))]

\* The length test of BlockSolution; len(solution) is the size of its domain.
WrongLengthOnlyShorter(solution, n) == Cardinality(DOMAIN solution) < n + 1

WrongLength(solution, n) == Cardinality(DOMAIN solution) # n + 1

BlockSolution(solution) ==
    /\ Ready
    /\ IF WrongLength(solution, PicosatVariables(eng))
       THEN /\ lastCall' = Call("BlockSolution", solution, "return", "error", FALSE)
            /\ UNCHANGED <<couldHaveFailedAssumptions, eng>>
       ELSE LET st == blocksol(eng, solution)
            IN /\ couldHaveFailedAssumptions' = st.flag
               /\ eng' = st.eng
               /\ lastCall' = Call("BlockSolution", solution, "return", "nil", FALSE)
    /\ UNCHANGED <<p, propLimit>>

\* Assume
Assume(lit) ==
    /\ Ready
    /\ eng' = PicosatAssume(eng, lit)
    /\ lastCall' = Call("Assume", lit, "return", "none", FALSE)
    /\ UNCHANGED <<p, propLimit, couldHaveFailedAssumptions>>

\* The guard of FailedAssumption: TRUE when it answers false by itself.  It
\* reads picosat_res and the literal; the flag is at hand but not consulted.
FailedAssumptionShortCircuits(e, flag, lit) ==
    PicosatRes(e) # Unsatisfiable \/ lit = 0

FailedAssumption(lit) ==
    /\ Ready
    /\ IF FailedAssumptionShortCircuits(eng, couldHaveFailedAssumptions, lit)
       THEN /\ lastCall' = Call("FailedAssumption", lit, "return", FALSE, FALSE)
            /\ UNCHANGED eng
       ELSE IF PicosatFailedAborts(eng)
       THEN /\ lastCall' = Call("FailedAssumption", lit, "abort", "none", TRUE)
            /\ eng' = [eng EXCEPT !.aborted = TRUE]
       ELSE /\ lastCall' = Call("FailedAssumption", lit, "return",
                                PicosatFailedAssumption(eng, lit), TRUE)
            /\ UNCHANGED eng
    /\ UNCHANGED <<p, propLimit, couldHaveFailedAssumptions>>

\* A nil *C.int: no array at all (an array holds at least its terminator).
NULL == <<>>

\* litArrayToSlice: the literals before the terminator; it panics on a nil
\* pointer and when more than maxLen literals were read without meeting the
\* terminator.
\* read is the number of elements the call has read from the array.
RECURSIVE litArrayToSliceLoop(_, _, _, _)
litArrayToSliceLoop(arr, i, lits, maxLen) ==
    IF arr[i] = 0 THEN [how |-> "return", lits |-> lits, read |-> i]
    ELSE IF Len(lits) > maxLen THEN [how |-> "panic", lits |-> <<>>, read |-> i]
    ELSE litArrayToSliceLoop(arr, i + 1, Append(lits, arr[i]), maxLen)

litArrayToSlice(arr, maxLen) ==
    IF arr = NULL THEN [how |-> "panic", lits |-> <<>>, read |-> 0]
    ELSE litArrayToSliceLoop(arr, 1, <<>>, maxLen)

\* A call litArrayToSlice(litPtr, maxLen) that has not started; litPtr is
\* the memory from the pointer on, or NULL.
Conversion(litPtr, maxLen) ==
    [litPtr |-> litPtr, maxLen |-> maxLen, pc |-> "start", how |-> "none",
     lits |-> <<>>, read |-> 0]

NoConversion == Conversion(NULL, 0)

\* The guard of FailedAssumptions: TRUE when it answers empty by itself.  It
\* reads picosat_res only.
FailedAssumptionsShortCircuits(e, flag) == PicosatRes(e) # Unsatisfiable

FailedAssumptions ==
    /\ Ready
    /\ IF FailedAssumptionsShortCircuits(eng, couldHaveFailedAssumptions)
       THEN /\ lastCall' = Call("FailedAssumptions", "none", "return", <<>>, FALSE)
            /\ UNCHANGED eng
       ELSE IF PicosatFailedAborts(eng)
       THEN /\ lastCall' = Call("FailedAssumptions", "none", "abort", "none", TRUE)
            /\ eng' = [eng EXCEPT !.aborted = TRUE]
       ELSE LET r == litArrayToSlice(PicosatFailedAssumptions(eng),
                                     PicosatVariables(eng))
            IN /\ lastCall' = Call("FailedAssumptions", "none", r.how, r.lits, TRUE)
               /\ UNCHANGED eng
    /\ UNCHANGED <<p, propLimit, couldHaveFailedAssumptions>>

Range(seq) == {seq[i] : i \in 1..Len(seq)}

\* The subsets the engine may extract.  It tries the assumptions in the
\* order it keeps them, which after an extraction puts the subset found
\* first: as long as nothing was called since, it finds that subset again
\* (TestAssumptionsFailing: {3, 5} and {3, 5}).
MssChoices(e, last) ==
    IF last.op = "MaxSatisfiableAssumptions" /\ last.how = "return" /\ last.queried
    THEN {Range(last.ret)}
    ELSE MaximalSatisfiableSubsets(e)

\* MaxSatisfiableAssumptions on the engine call that adds the blocking clause.
MaxSatisfiableAssumptionsBlocking ==
    /\ Ready
    /\ IF PicosatInconsistent(eng)
       THEN /\ lastCall' = Call("MaxSatisfiableAssumptions", "none", "return", <<>>, FALSE)
            /\ UNCHANGED eng
       ELSE \E M \in MssChoices(eng, lastCall) : \E r \in MssResults(eng, M) :
              LET e2 == PicosatNextMss(eng, M, r, FALSE)
                  ls == litArrayToSlice(LitArray(M), PicosatVariables(e2))
              IN /\ eng' = e2
                 /\ lastCall' = Call("MaxSatisfiableAssumptions", "none", ls.how, ls.lits, TRUE)
    /\ UNCHANGED <<p, propLimit, couldHaveFailedAssumptions>>

MaxSatisfiableAssumptions ==
    /\ Ready
    /\ IF PicosatInconsistent(eng)
       THEN /\ lastCall' = Call("MaxSatisfiableAssumptions", "none", "return", <<>>, FALSE)
            /\ UNCHANGED eng
       ELSE \E M \in MssChoices(eng, lastCall) : \E r \in MssResults(eng, M) :
              LET e2 == PicosatMss(eng, M, r)
                  ls == litArrayToSlice(LitArray(M), PicosatVariables(e2))
              IN /\ eng' = e2
                 /\ lastCall' = Call("MaxSatisfiableAssumptions", "none", ls.how, ls.lits, TRUE)
    /\ UNCHANGED <<p, propLimit, couldHaveFailedAssumptions>>

NextMaxSatisfiableAssumptions ==
    /\ Ready
    /\ IF PicosatInconsistent(eng)
       THEN /\ lastCall' = Call("NextMaxSatisfiableAssumptions", "none", "return", <<>>, FALSE)
            /\ UNCHANGED eng
       ELSE \/ \E M \in MssChoices(eng, lastCall) : \E r \in MssResults(eng, M) :
                \E found \in NextMssFound(eng, M) :
                 LET e2 == PicosatNextMss(eng, M, r, found)
                     ls == litArrayToSlice(LitArray(M), PicosatVariables(e2))
                 IN /\ eng' = e2
                    /\ lastCall' = Call("NextMaxSatisfiableAssumptions", "none", ls.how, ls.lits, TRUE)
            \/ /\ Models(eng.clauses, {}, eng.vars) = {}
               /\ LET e2 == PicosatNextMssInconsistent(eng)
                      ls == litArrayToSlice(NULL, PicosatVariables(e2))
                  IN /\ eng' = e2
                     /\ lastCall' = Call("NextMaxSatisfiableAssumptions", "none", ls.how, ls.lits, TRUE)
    /\ UNCHANGED <<p, propLimit, couldHaveFailedAssumptions>>

\* Go's int, narrowed to IntBits bits: arithmetic wraps around.
IntBits == 3
MinInt == -(2 ^ (IntBits - 1))
MaxInt == 2 ^ (IntBits - 1) - 1
Ints == MinInt..MaxInt
Wrap(x) == ((x - MinInt) % (2 ^ IntBits)) + MinInt

\* Go's integer division, which truncates toward zero.
Quo(a, b) == IF a >= 0 THEN a \div b ELSE -((-a) \div b)

Statuses == {Unknown, Satisfiable, Unsatisfiable}

\* The locals and results of a call of Minimize(m) that has not started,
\* with what m has been asked so far: the evaluations, the goroutines that
\* have not yet run (a bag) and the calls m has seen, in their order.
MinimizeCall(m) ==
    [m |-> m, pc |-> "start", hi |-> 0, lo |-> 0, optimal |-> FALSE,
     evaluated |-> {}, evaluations |-> 0, go |-> EmptyBag, recorded |-> {},
     events |-> <<>>, min |-> 0, feasible |-> FALSE]

\* No call of Minimize has started.
NoMinimize ==
    MinimizeCall([lower |-> 0, upper |-> 0, status |-> [k \in Ints |-> Satisfiable]])

\* No call of cFileWriterWrapper has started.
NoBridge ==
    [pc |-> "idle", copy |-> "none", size |-> 0, made |-> 0,
     cbuf |-> <<>>, pipe |-> <<>>, chunk |-> <<>>, wp |-> "none", rp |-> "none",
     w |-> <<>>, e |-> "nil", errChan |-> <<>>, err |-> "nil",
     faults |-> <<>>, ret |-> "none"]

NoCall ==
    [op |-> "New", arg |-> "none", how |-> "return", ret |-> "none",
     queried |-> FALSE, invalidated |-> TRUE,
     flagBefore |-> FALSE, resBefore |-> Unknown, stateBefore |-> "READY",
     addedBefore |-> 0]

\* New: a Ready session, with or without a propagation limit.
Init ==
    /\ p = "live"
    /\ couldHaveFailedAssumptions = FALSE
    /\ eng = EngineInit
    /\ propLimit \in BOOLEAN
    /\ lastCall = NoCall
    /\ lock = [writer |-> 0, readers |-> {}]
    /\ pc = [t \in Threads |-> "idle"]
    /\ op = [t \in Threads |-> "none"]
    /\ outcome = [t \in Threads |-> "none"]
    /\ step = [t \in Threads |-> 1]
    /\ resets = 0
    /\ resetOnNil = FALSE
    /\ armed = TRUE
    /\ reachable = TRUE
    /\ given = Separate(<<>>)
    /\ forwarded = <<>>
    /\ emptyAdded = FALSE
    /\ yielded = <<>>
    /\ bridge = NoBridge
    /\ minimize = NoMinimize
    /\ conv = NoConversion

Next ==
    \/ \E f \in FormulaInputs : AddClauses(f) /\ UNCHANGED <<concVars, histVars>>
    \/ Solve /\ UNCHANGED <<concVars, histVars>>
    \/ Res /\ UNCHANGED <<concVars, histVars>>
    \/ Variables /\ UNCHANGED <<concVars, histVars>>
    \/ AddedOriginalClauses /\ UNCHANGED <<concVars, histVars>>
    \/ /\ PicosatAddedOriginalClauses(eng) < MaxClauses
       /\ \E s \in SolutionInputs : BlockSolution(s) /\ UNCHANGED <<concVars, histVars>>
    \/ \E l \in LiteralInputs : Assume(l) /\ UNCHANGED <<concVars, histVars>>
    \/ \E l \in QueryInputs : FailedAssumption(l) /\ UNCHANGED <<concVars, histVars>>
    \/ FailedAssumptions /\ UNCHANGED <<concVars, histVars>>
    \/ MaxSatisfiableAssumptions /\ UNCHANGED <<concVars, histVars>>
    \/ /\ PicosatAddedOriginalClauses(eng) < MaxClauses
       /\ NextMaxSatisfiableAssumptions /\ UNCHANGED <<concVars, histVars>>

Spec == Init /\ [][Next]_vars

(***************************************************************************)
(* The loop of Solve and BlockSolution on one formula (SpecIter):          *)
(*     p.AddClauses(formula)                                               *)
(*     for status, solution := p.Solve(); status == Satisfiable;           *)
(*             status, solution = p.Solve() { p.BlockSolution(solution) }  *)
(* The loop is sequential code and keeps running until its condition       *)
(* fails, hence the fairness condition.                                    *)
(***************************************************************************)

IterAdd(formula) ==
    /\ lastCall.op = "New"
    /\ AddClauses(formula)
    /\ given' = formula
    /\ UNCHANGED <<forwarded, emptyAdded, yielded>>

\* p.Res(), called after Add and after every Solve as TestIterSolveRes does.
IterRes ==
    /\ lastCall.op \in {"AddClauses", "Solve"}
    /\ Res
    /\ UNCHANGED histVars

IterSolve ==
    /\ \/ lastCall.op \in {"AddClauses", "BlockSolution"}
       \/ lastCall.op = "Res" /\ lastCall.stateBefore = "READY"
    /\ Solve
    /\ yielded' = IF lastCall'.ret.status = Satisfiable
                  THEN Append(yielded, lastCall'.ret.solution)
                  ELSE yielded
    /\ UNCHANGED <<given, forwarded, emptyAdded>>

IterBlock ==
    /\ \/ lastCall.op = "Solve" /\ lastCall.ret.status = Satisfiable
       \/ lastCall.op = "Res" /\ lastCall.stateBefore = "SAT"
    /\ BlockSolution(yielded[Len(yielded)])
    /\ UNCHANGED histVars

NextIter ==
    \/ \E f \in FormulaInputs \cup SlicedInputs : IterAdd(f) /\ UNCHANGED concVars
    \/ IterRes /\ UNCHANGED concVars
    \/ IterSolve /\ UNCHANGED concVars
    \/ IterBlock /\ UNCHANGED concVars

SpecIter == Init /\ [][NextIter]_vars /\ WF_vars(NextIter)

(***************************************************************************)
(* The loop over the maximal satisfiable subsets (SpecMss):                *)
(*     p.AddClauses(formula); p.Assume(a1); ...; p.Solve()                 *)
(*     for mss := p.NextMaxSatisfiableAssumptions(); len(mss) > 0;         *)
(*             mss = p.NextMaxSatisfiableAssumptions() { ... }             *)
(* with Solve left out or not, and the calls of MaxSatisfiableAssumptions  *)
(* a caller makes before the loop.  The caller is sequential code that     *)
(* goes on to its loop and through it, hence the fairness conditions.      *)
(***************************************************************************)

MssFormulas ==
    FormulaInputs \cup {Separate(<<<<-1, -2>>>>), Separate(<<<<-2, 1>>, <<-2, -1>>>>)}

\* The clauses of the Formula passed to AddClauses.
GivenClauses ==
    {LitsBeforeZero(ClauseAt(given.mem, given.hdr[i]), 1) : i \in 1..Len(given.hdr)}

MssAdd(formula) ==
    /\ lastCall.op = "New"
    /\ AddClauses(formula)
    /\ given' = formula
    /\ UNCHANGED <<forwarded, emptyAdded, yielded>>

MssAssume(lit) ==
    /\ lastCall.op \in {"AddClauses", "Assume"}
    /\ lit \notin eng.als
    /\ Assume(lit)
    /\ UNCHANGED histVars

MssSolve ==
    /\ lastCall.op = "Assume"
    /\ Solve
    /\ UNCHANGED histVars

MssMax ==
    /\ lastCall.op \in {"Assume", "Solve", "MaxSatisfiableAssumptions"}
    /\ MaxSatisfiableAssumptions
    /\ UNCHANGED histVars

MssNext ==
    /\ \/ lastCall.op \in {"Assume", "Solve", "MaxSatisfiableAssumptions"}
       \/ /\ lastCall.op = "NextMaxSatisfiableAssumptions"
          /\ lastCall.how = "return"
          /\ lastCall.ret # <<>>
    /\ NextMaxSatisfiableAssumptions
    /\ yielded' = IF lastCall'.how = "return" /\ lastCall'.ret # <<>>
                  THEN Append(yielded, lastCall'.ret)
                  ELSE yielded
    /\ UNCHANGED <<given, forwarded, emptyAdded>>

NextMss ==
    \/ \E f \in MssFormulas : MssAdd(f) /\ UNCHANGED concVars
    \/ \E l \in LiteralInputs : MssAssume(l) /\ UNCHANGED concVars
    \/ MssSolve /\ UNCHANGED concVars
    \/ MssMax /\ UNCHANGED concVars
    \/ MssNext /\ UNCHANGED concVars

SpecMss ==
    /\ Init /\ [][NextMss]_vars
    /\ WF_vars(NextMss) /\ WF_vars(MssNext /\ UNCHANGED concVars)

(***************************************************************************)
(* Ingestion seen from the caller (SpecAdd): what AddClauses was passed,   *)
(* what it handed to the engine, and the Solves that follow.               *)
(***************************************************************************)

\* Clauses with a 0 at the end and in the middle, next to the others.
IngestClauseInputs == ClauseInputs \cup {<<1, 0>>, <<1, 0, 2>>}
IngestInputs ==
    {Separate(cs) : cs \in ClauseLists(IngestClauseInputs)}
        \cup {Shared(cs) : cs \in ClauseLists(IngestClauseInputs)}

AddGiven(formula) ==
    /\ AddClauses(formula)
    /\ given' = formula
    /\ forwarded' = AddClausesRun(formula).fwd
    /\ emptyAdded' = (emptyAdded \/ \E i \in 1..Len(formula.hdr) :
                                       formula.hdr[i].len = 0)
    /\ UNCHANGED yielded

NextAdd ==
    \/ \E f \in IngestInputs : AddGiven(f) /\ UNCHANGED concVars
    \/ Solve /\ UNCHANGED <<concVars, histVars>>
    \/ Assume(1) /\ UNCHANGED <<concVars, histVars>>

SpecAdd == Init /\ [][NextAdd]_vars

(***************************************************************************)
(* The facade, several goroutines on one session (SpecConc).  A call is    *)
(* "ready" from its start until ready has the lock, "wwait" while Lock has *)
(* announced a writer and waits for the readers to leave, and "engine"     *)
(* from there until the deferred unlock.                                   *)
(***************************************************************************)

\* The methods that call ready(true), and those that call ready(false).
ReadonlyOps ==
    {"Variables", "AddedOriginalClauses", "Seconds", "Print", "Res",
     "WriteClausalCore", "WriteCompactTrace", "WriteExtendedTrace",
     "FailedAssumption", "FailedAssumptions"}
MutatingOps ==
    {"AddClauses", "Solve", "BlockSolution", "Assume",
     "MaxSatisfiableAssumptions", "NextMaxSatisfiableAssumptions"}
ReportingOps ==
    {"Print", "WriteClausalCore", "WriteCompactTrace", "WriteExtendedTrace"}
PublicOps == ReadonlyOps \cup MutatingOps

\* What a method calls between ready and its deferred unlock, in order: C
\* functions of the engine, the unexported res and blocksol, or (nowhere in
\* the code) an exported method, which would call ready again.
SolveBodyCallingVariables == <<"picosat_sat", "Variables", "picosat_deref">>

SolveBody == <<"picosat_sat", "picosat_variables", "picosat_deref">>

BlockSolutionBody == <<"picosat_variables", "blocksol">>
FailedAssumptionBody == <<"res", "picosat_failed_assumption">>
FailedAssumptionsBody ==
    <<"res", "picosat_failed_assumptions", "picosat_variables">>

Body(o) ==
    CASE o = "Solve" -> SolveBody
      [] o = "BlockSolution" -> BlockSolutionBody
      [] o = "FailedAssumption" -> FailedAssumptionBody
      [] o = "FailedAssumptions" -> FailedAssumptionsBody
      [] o = "Res" -> <<"res">>
      [] o \in {"MaxSatisfiableAssumptions", "NextMaxSatisfiableAssumptions"} ->
            <<"picosat_inconsistent", "picosat_mss", "picosat_variables">>
      [] OTHER -> <<"picosat">>

\* The readonly argument a method passes to ready.
readonlyBlockSolutionShared(o) == o \in ReadonlyOps \cup {"BlockSolution"}

readonlyAssumeShared(o) == o \in ReadonlyOps \cup {"Assume"}

readonlySolveShared(o) == o \in ReadonlyOps \cup {"Solve"}

readonlyWritersShared(o) == o \in ReadonlyOps \cup MutatingOps

readonly(o) == o \in ReadonlyOps

\* ready's test of the handle, made with the lock held.
readyNeverPanics(h) == FALSE

readyPanics(h) == h = "nil"

\* A goroutine starts a public method.
Invoke(t, o) ==
    /\ reachable
    /\ pc[t] = "idle"
    /\ pc' = [pc EXCEPT ![t] = "ready"]
    /\ op' = [op EXCEPT ![t] = o]
    /\ outcome' = [outcome EXCEPT ![t] = "none"]
    /\ step' = [step EXCEPT ![t] = 1]
    /\ UNCHANGED <<lock, resets, resetOnNil, armed, reachable>>

\* ready(true): RLock, which waits while a writer holds the lock or has
\* announced itself, then the test of the handle; on nil the deferred
\* RUnlock runs and the call panics.
readyShared(t) ==
    /\ pc[t] = "ready"
    /\ readonly(op[t])
    /\ lock.writer = 0
    /\ IF readyPanics(p)
       THEN /\ pc' = [pc EXCEPT ![t] = "idle"]
            /\ op' = [op EXCEPT ![t] = "none"]
            /\ outcome' = [outcome EXCEPT ![t] = "panic"]
            /\ UNCHANGED lock
       ELSE /\ pc' = [pc EXCEPT ![t] = "engine"]
            /\ lock' = [lock EXCEPT !.readers = @ \cup {t}]
            /\ UNCHANGED <<op, outcome>>
    /\ UNCHANGED <<step, resets, resetOnNil, armed, reachable>>

\* Lock, first half: one writer at a time announces itself.
LockAnnounce(t) ==
    /\ pc[t] = "ready"
    /\ ~readonly(op[t])
    /\ lock.writer = 0
    /\ lock' = [lock EXCEPT !.writer = t]
    /\ pc' = [pc EXCEPT ![t] = "wwait"]
    /\ UNCHANGED <<op, outcome, step, resets, resetOnNil, armed, reachable>>

\* ready(false): Lock returns once the readers have left, then the test of
\* the handle; on nil the deferred Unlock runs and the call panics.
readyExclusive(t) ==
    /\ pc[t] = "wwait"
    /\ op[t] # "Delete"
    /\ lock.readers = {}
    /\ IF readyPanics(p)
       THEN /\ pc' = [pc EXCEPT ![t] = "idle"]
            /\ op' = [op EXCEPT ![t] = "none"]
            /\ outcome' = [outcome EXCEPT ![t] = "panic"]
            /\ lock' = [lock EXCEPT !.writer = 0]
       ELSE /\ pc' = [pc EXCEPT ![t] = "engine"]
            /\ UNCHANGED <<lock, op, outcome>>
    /\ UNCHANGED <<step, resets, resetOnNil, armed, reachable>>

\* The next call in the body of a method.  An engine function or an
\* unexported method runs with the lock the caller holds.  An exported
\* method calls ready: the goroutine asks for the lock a second time, and
\* RLock lets it pass only while no writer has announced itself.
Callee(t) ==
    /\ pc[t] \in {"engine", "reenter"}
    /\ op[t] \in PublicOps
    /\ step[t] <= Len(Body(op[t]))
    /\ LET c == Body(op[t])[step[t]]
       IN IF c \notin PublicOps
          THEN /\ step' = [step EXCEPT ![t] = @ + 1]
               /\ UNCHANGED pc
          ELSE IF pc[t] = "engine"
          THEN /\ pc' = [pc EXCEPT ![t] = "reenter"]
               /\ UNCHANGED step
          ELSE /\ readonly(c)
               /\ lock.writer = 0
               /\ pc' = [pc EXCEPT ![t] = "engine"]
               /\ step' = [step EXCEPT ![t] = @ + 1]
    /\ UNCHANGED <<lock, op, outcome, resets, resetOnNil, armed, reachable>>

\* The deferred unlock of a public method, after its engine calls.
Return(t) ==
    /\ pc[t] = "engine"
    /\ op[t] \in PublicOps
    /\ step[t] > Len(Body(op[t]))
    /\ lock' = IF lock.writer = t
               THEN [lock EXCEPT !.writer = 0]
               ELSE [lock EXCEPT !.readers = @ \ {t}]
    /\ pc' = [pc EXCEPT ![t] = "idle"]
    /\ op' = [op EXCEPT ![t] = "none"]
    /\ outcome' = [outcome EXCEPT ![t] = "ok"]
    /\ step' = [step EXCEPT ![t] = 1]
    /\ UNCHANGED <<resets, resetOnNil, armed, reachable>>

\* The values of step at which the body of a method can panic: in Solve
\* after picosat_sat (unknown status) and after picosat_deref (value 0), in
\* the methods that return an array of the engine in litArrayToSlice.
PanicSteps(o) ==
    CASE o = "Solve" -> {2, 4}
      [] o \in {"FailedAssumptions", "MaxSatisfiableAssumptions",
                "NextMaxSatisfiableAssumptions"} -> {4}
      [] OTHER -> {}

\* A panic in the body of a method that leaves the lock as it is.
PanicHoldingLock(t) ==
    /\ pc[t] = "engine"
    /\ op[t] \in PublicOps
    /\ step[t] \in PanicSteps(op[t])
    /\ pc' = [pc EXCEPT ![t] = "idle"]
    /\ op' = [op EXCEPT ![t] = "none"]
    /\ outcome' = [outcome EXCEPT ![t] = "panic in body"]
    /\ step' = [step EXCEPT ![t] = 1]
    /\ UNCHANGED <<lock, resets, resetOnNil, armed, reachable>>

\* A panic in the body of a method: the deferred unlock runs.
Panic(t) ==
    /\ pc[t] = "engine"
    /\ op[t] \in PublicOps
    /\ step[t] \in PanicSteps(op[t])
    /\ lock' = IF lock.writer = t
               THEN [lock EXCEPT !.writer = 0]
               ELSE [lock EXCEPT !.readers = @ \ {t}]
    /\ pc' = [pc EXCEPT ![t] = "idle"]
    /\ op' = [op EXCEPT ![t] = "none"]
    /\ outcome' = [outcome EXCEPT ![t] = "panic in body"]
    /\ step' = [step EXCEPT ![t] = 1]
    /\ UNCHANGED <<resets, resetOnNil, armed, reachable>>

\* Delete, up to its call of Lock: the handle is tested without the lock.
DeleteCheck(t) ==
    /\ reachable
    /\ pc[t] = "idle"
    /\ IF p = "nil"
       THEN /\ outcome' = [outcome EXCEPT ![t] = "noop"]
            /\ UNCHANGED <<pc, op>>
       ELSE /\ pc' = [pc EXCEPT ![t] = "ready"]
            /\ op' = [op EXCEPT ![t] = "Delete"]
            /\ outcome' = [outcome EXCEPT ![t] = "none"]
    /\ UNCHANGED <<lock, step, resets, resetOnNil, armed, reachable>>

\* Delete: Lock returns once the readers have left.
DeleteLock(t) ==
    /\ pc[t] = "wwait"
    /\ op[t] = "Delete"
    /\ lock.readers = {}
    /\ pc' = [pc EXCEPT ![t] = "engine"]
    /\ UNCHANGED <<lock, op, outcome, step, resets, resetOnNil, armed, reachable>>

\* Delete, with the lock: picosat_reset(p.p), p.p = nil, the finalizer is
\* cleared, and the deferred Unlock.
DeleteReset(t) ==
    /\ pc[t] = "engine"
    /\ op[t] = "Delete"
    /\ resets' = resets + 1
    /\ resetOnNil' = (resetOnNil \/ p = "nil")
    /\ p' = "nil"
    /\ armed' = FALSE
    /\ lock' = [lock EXCEPT !.writer = 0]
    /\ pc' = [pc EXCEPT ![t] = "idle"]
    /\ op' = [op EXCEPT ![t] = "none"]
    /\ outcome' = [outcome EXCEPT ![t] = "ok"]
    /\ UNCHANGED <<step, reachable>>

\* delete, run by the garbage collector once no goroutine refers to the
\* session any more.
Finalize ==
    /\ armed
    /\ reachable
    /\ \A t \in Threads : pc[t] = "idle"
    /\ reachable' = FALSE
    /\ armed' = FALSE
    /\ IF p = "nil"
       THEN UNCHANGED <<p, resets>>
       ELSE /\ resets' = resets + 1
            /\ p' = "nil"
    /\ UNCHANGED <<lock, pc, op, outcome, step, resetOnNil>>

\* A session made by New, or the zero value of Pigosat.
InitConc ==
    /\ p \in {"live", "nil"}
    /\ couldHaveFailedAssumptions = FALSE
    /\ eng = EngineInit
    /\ propLimit = FALSE
    /\ lastCall = NoCall
    /\ lock = [writer |-> 0, readers |-> {}]
    /\ pc = [t \in Threads |-> "idle"]
    /\ op = [t \in Threads |-> "none"]
    /\ outcome = [t \in Threads |-> "none"]
    /\ step = [t \in Threads |-> 1]
    /\ resets = 0
    /\ resetOnNil = FALSE
    /\ armed = (p = "live")
    /\ reachable = TRUE
    /\ given = Separate(<<>>)
    /\ forwarded = <<>>
    /\ emptyAdded = FALSE
    /\ yielded = <<>>
    /\ bridge = NoBridge
    /\ minimize = NoMinimize
    /\ conv = NoConversion

engVars ==
    <<couldHaveFailedAssumptions, eng, propLimit, lastCall, histVars, bridge,
      minimize, conv>>

NextConc ==
    \/ \E t \in Threads : \E o \in PublicOps : Invoke(t, o) /\ UNCHANGED <<p, engVars>>
    \/ \E t \in Threads : readyShared(t) /\ UNCHANGED <<p, engVars>>
    \/ \E t \in Threads : LockAnnounce(t) /\ UNCHANGED <<p, engVars>>
    \/ \E t \in Threads : readyExclusive(t) /\ UNCHANGED <<p, engVars>>
    \/ \E t \in Threads : Callee(t) /\ UNCHANGED <<p, engVars>>
    \/ \E t \in Threads : Return(t) /\ UNCHANGED <<p, engVars>>
    \/ \E t \in Threads : Panic(t) /\ UNCHANGED <<p, engVars>>
    \/ \E t \in Threads : DeleteCheck(t) /\ UNCHANGED <<p, engVars>>
    \/ \E t \in Threads : DeleteLock(t) /\ UNCHANGED <<p, engVars>>
    \/ \E t \in Threads : DeleteReset(t) /\ UNCHANGED engVars
    \/ Finalize /\ UNCHANGED engVars

SpecConc == InitConc /\ [][NextConc]_vars

(***************************************************************************)
(* The output bridge (SpecBridge): one call of cFileWriterWrapper, that is *)
(* the caller and the goroutine it starts.  The write function produces    *)
(* the bytes 1..size through the C FILE, whose buffer empties into the     *)
(* pipe; io.Copy moves what the pipe holds to the io.Writer w.  Every step *)
(* that can fail in the code may fail here.  Both goroutines are scheduled *)
(* as long as they can run, hence the fairness condition.                  *)
(***************************************************************************)

\* Bytes the pipe holds before a write to it blocks, and bytes the C FILE
\* holds back before it writes to the pipe.
PipeCap == 2
CBufCap == 1

sessionVars ==
    <<p, couldHaveFailedAssumptions, eng, propLimit, lastCall, histVars,
      lock, pc, op, outcome, step, resets, resetOnNil, armed, reachable,
      minimize, conv>>

\* A step failed with the error named err: the error branch closes wp and
\* returns err, which leaves the deferred rp.Close to run.
ErrorBranch(b, err) ==
    [b EXCEPT !.err = err, !.faults = Append(@, err), !.wp = "closed",
              !.pc = "deferred"]

\* The C library writes the oldest buffered byte to the pipe; the write
\* blocks while the pipe is full.
CanFlush(b) == b.cbuf # <<>> /\ Len(b.pipe) < PipeCap
Flush(b) == [b EXCEPT !.pipe = Append(@, Head(b.cbuf)), !.cbuf = Tail(@)]

\* rp, wp, err := os.Pipe(), for a write function that produces size bytes.
osPipe(size) ==
    /\ bridge.pc = "idle"
    /\ \/ bridge' = [bridge EXCEPT !.size = size, !.rp = "open", !.wp = "open",
                                    !.pc = "cfdopen"]
       \/ bridge' = [bridge EXCEPT !.size = size, !.err = "pipe", !.ret = "pipe",
                                    !.faults = <<"pipe">>, !.pc = "done"]

\* cfile, err := cfdopen(wp, "a")
cfdopen ==
    /\ bridge.pc = "cfdopen"
    /\ \/ bridge' = [bridge EXCEPT !.pc = "go"]
       \/ bridge' = ErrorBranch(bridge, "cfdopen")

\* go func() { _, e := io.Copy(w, rp); errChan <- e }()
goCopy ==
    /\ bridge.pc = "go"
    /\ bridge' = [bridge EXCEPT !.copy = "read", !.pc = "writeFn"]

\* writeFn(cfile): the next byte goes to the C buffer, or the full buffer is
\* written to the pipe first; the function returns nil after its last byte,
\* or an error at any point where it is running: while its write to the
\* full pipe blocks it returns nothing.
writeFn ==
    /\ bridge.pc = "writeFn"
    /\ \/ /\ bridge.made < bridge.size
          /\ Len(bridge.cbuf) < CBufCap
          /\ bridge' = [bridge EXCEPT !.cbuf = Append(@, bridge.made + 1),
                                       !.made = @ + 1]
       \/ /\ bridge.made < bridge.size
          /\ Len(bridge.cbuf) = CBufCap
          /\ CanFlush(bridge)
          /\ bridge' = Flush(bridge)
       \/ /\ bridge.made = bridge.size
          /\ bridge' = [bridge EXCEPT !.pc = "fflush"]
       \/ /\ ~(/\ bridge.made < bridge.size
               /\ Len(bridge.cbuf) = CBufCap
               /\ ~CanFlush(bridge))
          /\ bridge' = ErrorBranch(bridge, "writeFn")

\* C.fflush(cfile): empties the C buffer into the pipe, waiting while the
\* pipe is full; it may fail whenever it is not waiting.
fflush ==
    /\ bridge.pc = "fflush"
    /\ \/ /\ CanFlush(bridge)
          /\ bridge' = Flush(bridge)
       \/ /\ bridge.cbuf = <<>>
          /\ bridge' = [bridge EXCEPT !.pc = "wpClose"]
       \/ /\ bridge.cbuf = <<>> \/ CanFlush(bridge)
          /\ bridge' = ErrorBranch(bridge, "fflush")

\* if err = wp.Close(); err != nil { return err }
wpClose ==
    /\ bridge.pc = "wpClose"
    /\ \/ bridge' = [bridge EXCEPT !.wp = "closed", !.pc = "recv"]
       \/ bridge' = ErrorBranch(bridge, "wpClose")

\* return <-errChan
recvErrChan ==
    /\ bridge.pc = "recv"
    /\ bridge.errChan # <<>>
    /\ bridge' = [bridge EXCEPT !.err = Head(bridge.errChan),
                                 !.errChan = Tail(@), !.pc = "deferred"]

\* The deferred function: if e := rp.Close(); e != nil { err = e }
rpClose ==
    /\ bridge.pc = "deferred"
    /\ \/ bridge' = [bridge EXCEPT !.rp = "closed", !.ret = bridge.err,
                                    !.pc = "done"]
       \/ bridge' = [bridge EXCEPT !.rp = "closed", !.err = "rpClose",
                                    !.ret = "rpClose",
                                    !.faults = Append(@, "rpClose"),
                                    !.pc = "done"]

\* io.Copy, reading rp: an error once rp is closed, otherwise what the pipe
\* holds, otherwise end of data once wp is closed; it waits on an empty pipe
\* whose write end is open.
ioCopyRead ==
    /\ bridge.copy = "read"
    /\ IF bridge.rp = "closed"
       THEN bridge' = [bridge EXCEPT !.e = "read", !.copy = "send"]
       ELSE IF bridge.pipe # <<>>
       THEN bridge' = [bridge EXCEPT !.chunk = bridge.pipe, !.pipe = <<>>,
                                     !.copy = "write"]
       ELSE /\ bridge.wp = "closed"
            /\ bridge' = [bridge EXCEPT !.e = "nil", !.copy = "send"]

\* io.Copy, writing to w what it read; w may return an error, which ends
\* the copy.
ioCopyWrite ==
    /\ bridge.copy = "write"
    /\ \/ bridge' = [bridge EXCEPT !.w = @ \o bridge.chunk, !.chunk = <<>>,
                                    !.copy = "read"]
       \/ bridge' = [bridge EXCEPT !.e = "copy", !.faults = Append(@, "copy"),
                                    !.copy = "send"]

\* errChan <- e on a channel made without room: the send waits for the
\* receive of the last statement.
errChanSendUnbuffered ==
    /\ bridge.copy = "send"
    /\ bridge.pc = "recv"
    /\ bridge' = [bridge EXCEPT !.errChan = Append(@, bridge.e), !.copy = "done"]

\* errChan <- e, on a channel with room for one error.
errChanSend ==
    /\ bridge.copy = "send"
    /\ bridge' = [bridge EXCEPT !.errChan = Append(@, bridge.e), !.copy = "done"]

NextBridge ==
    \/ \E size \in 0..MaxData : osPipe(size) /\ UNCHANGED sessionVars
    \/ cfdopen /\ UNCHANGED sessionVars
    \/ goCopy /\ UNCHANGED sessionVars
    \/ writeFn /\ UNCHANGED sessionVars
    \/ fflush /\ UNCHANGED sessionVars
    \/ wpClose /\ UNCHANGED sessionVars
    \/ recvErrChan /\ UNCHANGED sessionVars
    \/ rpClose /\ UNCHANGED sessionVars
    \/ ioCopyRead /\ UNCHANGED sessionVars
    \/ ioCopyWrite /\ UNCHANGED sessionVars
    \/ errChanSend /\ UNCHANGED sessionVars

SpecBridge == Init /\ [][NextBridge]_vars /\ WF_vars(NextBridge)

(***************************************************************************)
(* Writing cores and traces (SpecTrace): a session made by New with or     *)
(* without Options.EnableTrace, clauses added, Solve, and the calls of     *)
(* WriteClausalCore, WriteCompactTrace and WriteExtendedTrace, each of     *)
(* which runs cFileWriterWrapper on the engine's write function while it   *)
(* holds the lock.                                                         *)
(***************************************************************************)

WriteOps == {"WriteClausalCore", "WriteCompactTrace", "WriteExtendedTrace"}

\* Bytes the engine writes for a core or a trace.
TraceSize == 1

TraceFormulas == {Separate(<<<<1>>>>), Separate(<<<<-1>>>>)}

traceFrame ==
    <<p, couldHaveFailedAssumptions, propLimit, histVars,
      lock, pc, op, outcome, step, resets, resetOnNil, armed, reachable,
      minimize, conv>>

\* The test at the head of the three methods, which passes for every
\* result but Unknown.
NotUnsatisfiableOnlyUnknown(e) == PicosatRes(e) = Unknown

\* if Status(C.picosat_res(p.p)) != Unsatisfiable
NotUnsatisfiable(e) == PicosatRes(e) # Unsatisfiable

\* WriteClausalCore, WriteCompactTrace, WriteExtendedTrace up to the first
\* statement of cFileWriterWrapper.
Write(o) ==
    /\ Ready
    /\ bridge.pc = "idle"
    /\ IF NotUnsatisfiable(eng)
       THEN /\ lastCall' = Call(o, "none", "return", "error", FALSE)
            /\ UNCHANGED bridge
       ELSE /\ lastCall' = Call(o, "none", "running", "none", FALSE)
            /\ osPipe(TraceSize)
    /\ UNCHANGED <<eng, traceFrame>>

\* The write function the three methods pass to cFileWriterWrapper: the
\* call of the engine's write function, which returns the error it leaves.
engineWriteFn ==
    /\ bridge.pc = "writeFn"
    /\ IF PicosatWriteAborts(eng)
       THEN /\ eng' = [eng EXCEPT !.aborted = TRUE]
            /\ bridge' = [bridge EXCEPT !.pc = "aborted"]
       ELSE /\ writeFn
            /\ UNCHANGED eng
    /\ UNCHANGED <<lastCall, traceFrame>>

\* return cFileWriterWrapper(...), and the deferred unlock.
WriteReturn ==
    /\ bridge.pc = "done"
    /\ lastCall' = [lastCall EXCEPT !.how = "return",
                                    !.ret = IF bridge.ret = "nil" THEN "nil"
                                            ELSE "error"]
    /\ bridge' = NoBridge
    /\ UNCHANGED <<eng, traceFrame>>

\* New(&Options{EnableTrace: ...})
InitTrace ==
    /\ p = "live"
    /\ couldHaveFailedAssumptions = FALSE
    /\ eng \in {EngineInit, PicosatEnableTraceGeneration(EngineInit)}
    /\ propLimit \in BOOLEAN
    /\ lastCall = NoCall
    /\ lock = [writer |-> 0, readers |-> {}]
    /\ pc = [t \in Threads |-> "idle"]
    /\ op = [t \in Threads |-> "none"]
    /\ outcome = [t \in Threads |-> "none"]
    /\ step = [t \in Threads |-> 1]
    /\ resets = 0
    /\ resetOnNil = FALSE
    /\ armed = TRUE
    /\ reachable = TRUE
    /\ given = Separate(<<>>)
    /\ forwarded = <<>>
    /\ emptyAdded = FALSE
    /\ yielded = <<>>
    /\ bridge = NoBridge
    /\ minimize = NoMinimize
    /\ conv = NoConversion

NextTrace ==
    \/ /\ bridge.pc = "idle"
       /\ \E f \in TraceFormulas : AddClauses(f) /\ UNCHANGED <<concVars, histVars>>
    \/ bridge.pc = "idle" /\ Solve /\ UNCHANGED <<concVars, histVars>>
    \/ \E o \in WriteOps : Write(o)
    \/ cfdopen /\ UNCHANGED sessionVars
    \/ goCopy /\ UNCHANGED sessionVars
    \/ engineWriteFn
    \/ fflush /\ UNCHANGED sessionVars
    \/ wpClose /\ UNCHANGED sessionVars
    \/ recvErrChan /\ UNCHANGED sessionVars
    \/ rpClose /\ UNCHANGED sessionVars
    \/ ioCopyRead /\ UNCHANGED sessionVars
    \/ ioCopyWrite /\ UNCHANGED sessionVars
    \/ errChanSend /\ UNCHANGED sessionVars
    \/ WriteReturn

SpecTrace == InitTrace /\ [][NextTrace]_vars

(***************************************************************************)
(* The bisection search (SpecMin): one call of Minimize on a Minimizer m   *)
(* that answers LowerBound, UpperBound and IsFeasible from fixed values.   *)
(* The call is split at its calls of IsFeasible; every go statement starts *)
(* a goroutine that runs RecordSolution at some later time.                *)
(***************************************************************************)

\* What IsFeasible answers where it is not Satisfiable.
Infeasible ==
    {[k \in Ints |-> Unsatisfiable], [k \in Ints |-> Unknown],
     [k \in Ints |-> IF k % 2 = 0 THEN Unknown ELSE Unsatisfiable]}

\* The status functions of the Minimizers: Satisfiable from some K on, or
\* Satisfiable on every other k.
Predicates ==
    {[k \in Ints |-> IF k >= K THEN Satisfiable ELSE b[k]] :
        K \in MinInt..(MaxInt + 1), b \in Infeasible}
    \cup {[k \in Ints |-> IF k % 2 = 0 THEN Satisfiable ELSE b[k]] : b \in Infeasible}

Minimizers == [lower : Ints, upper : Ints, status : Predicates]

\* Evaluations of IsFeasible are counted up to this number.
MaxEvaluations == IntBits + 2

\* The calls of m are kept up to this number.
MaxEvents == 2 * (IntBits + 1)

Observed(events, call, k, status) ==
    IF Len(events) < MaxEvents
    THEN Append(events, [call |-> call, k |-> k, status |-> status])
    ELSE events

\* go m.RecordSolution(k, status, solution); goroutines with the same
\* arguments are counted up to MaxEvaluations.
Go(go, k, status) ==
    IF CopiesIn(<<k, status>>, go) < MaxEvaluations
    THEN go (+) SetToBag({<<k, status>>})
    ELSE go

\* m.IsFeasible(k) has returned status, with the go statement executed for
\* Satisfiable only.
EvaluatedGoOnSatisfiable(c, k, status) ==
    [c EXCEPT !.evaluated = @ \cup {<<k, status>>},
              !.evaluations = IF @ < MaxEvaluations THEN @ + 1 ELSE @,
              !.events = Observed(@, "IsFeasible", k, status),
              !.go = IF status = Satisfiable THEN Go(@, k, status) ELSE @]

\* m.IsFeasible(k) has returned status, and go m.RecordSolution(k, status,
\* solution) has been executed.
Evaluated(c, k, status) ==
    [c EXCEPT !.evaluated = @ \cup {<<k, status>>},
              !.evaluations = IF @ < MaxEvaluations THEN @ + 1 ELSE @,
              !.events = Observed(@, "IsFeasible", k, status),
              !.go = Go(@, k, status)]

\* hi, lo := m.UpperBound(), m.LowerBound() with no test of the bounds
MinimizeBoundsUnchecked ==
    /\ minimize.pc = "start"
    /\ minimize' = [minimize EXCEPT !.hi = minimize.m.upper,
                                    !.lo = minimize.m.lower, !.pc = "first"]

\* hi, lo := m.UpperBound(), m.LowerBound() and the panic on hi < lo
MinimizeBounds ==
    /\ minimize.pc = "start"
    /\ LET hi == minimize.m.upper
           lo == minimize.m.lower
       IN minimize' = [minimize EXCEPT !.hi = hi, !.lo = lo,
                           !.pc = IF hi < lo THEN "panic" ELSE "first"]

\* m.IsFeasible(hi), returning only on the status Unsatisfiable.
IsFeasibleUpperBoundUnsatisfiable ==
    /\ minimize.pc = "first"
    /\ LET status == minimize.m.status[minimize.hi]
           c == Evaluated(minimize, minimize.hi, status)
       IN minimize' =
              IF status = Unsatisfiable
              THEN [c EXCEPT !.min = minimize.hi, !.optimal = FALSE,
                             !.feasible = FALSE, !.pc = "returned"]
              ELSE [c EXCEPT !.pc = "loop"]

\* m.IsFeasible(hi) and the return on a status that is not Satisfiable
IsFeasibleUpperBound ==
    /\ minimize.pc = "first"
    /\ LET status == minimize.m.status[minimize.hi]
           c == Evaluated(minimize, minimize.hi, status)
       IN minimize' =
              IF status # Satisfiable
              THEN [c EXCEPT !.min = minimize.hi, !.optimal = FALSE,
                             !.feasible = FALSE, !.pc = "returned"]
              ELSE [c EXCEPT !.pc = "loop"]

\* k := lo + (hi-lo)/2
Midpoint(lo, hi) == Wrap(lo + Quo(Wrap(hi - lo), 2))

\* One round of the loop, with optimal set on the status Unsatisfiable only.
BisectOptimalOnUnsatisfiable ==
    /\ minimize.pc = "loop"
    /\ minimize.hi > minimize.lo
    /\ LET k == Midpoint(minimize.lo, minimize.hi)
           status == minimize.m.status[k]
           c == Evaluated(minimize, k, status)
       IN minimize' =
              IF status = Satisfiable
              THEN [c EXCEPT !.hi = k]
              ELSE [c EXCEPT !.lo = Wrap(k + 1),
                             !.optimal = @ \/ status = Unsatisfiable]

\* One round of the loop.
Bisect ==
    /\ minimize.pc = "loop"
    /\ minimize.hi > minimize.lo
    /\ LET k == Midpoint(minimize.lo, minimize.hi)
           status == minimize.m.status[k]
           c == Evaluated(minimize, k, status)
       IN minimize' =
              IF status = Satisfiable
              THEN [c EXCEPT !.hi = k]
              ELSE [c EXCEPT !.lo = Wrap(k + 1), !.optimal = TRUE]

\* return hi, optimal, true
MinimizeReturn ==
    /\ minimize.pc = "loop"
    /\ ~(minimize.hi > minimize.lo)
    /\ minimize' = [minimize EXCEPT !.min = minimize.hi, !.feasible = TRUE,
                                    !.pc = "returned"]

\* A goroutine started by Minimize runs m.RecordSolution.
RecordSolution ==
    \E a \in BagToSet(minimize.go) :
        minimize' = [minimize EXCEPT
                        !.go = @ (-) SetToBag({a}),
                        !.recorded = @ \cup {a},
                        !.events = Observed(@, "RecordSolution", a[1], a[2])]

minFrame ==
    <<p, couldHaveFailedAssumptions, eng, propLimit, lastCall, histVars,
      lock, pc, op, outcome, step, resets, resetOnNil, armed, reachable, bridge,
      conv>>

InitMin ==
    /\ p = "live"
    /\ couldHaveFailedAssumptions = FALSE
    /\ eng = EngineInit
    /\ propLimit = FALSE
    /\ lastCall = NoCall
    /\ lock = [writer |-> 0, readers |-> {}]
    /\ pc = [t \in Threads |-> "idle"]
    /\ op = [t \in Threads |-> "none"]
    /\ outcome = [t \in Threads |-> "none"]
    /\ step = [t \in Threads |-> 1]
    /\ resets = 0
    /\ resetOnNil = FALSE
    /\ armed = TRUE
    /\ reachable = TRUE
    /\ given = Separate(<<>>)
    /\ forwarded = <<>>
    /\ emptyAdded = FALSE
    /\ yielded = <<>>
    /\ bridge = NoBridge
    /\ minimize \in {MinimizeCall(m) : m \in Minimizers}
    /\ conv = NoConversion

NextMin ==
    \/ MinimizeBounds /\ UNCHANGED minFrame
    \/ IsFeasibleUpperBound /\ UNCHANGED minFrame
    \/ Bisect /\ UNCHANGED minFrame
    \/ MinimizeReturn /\ UNCHANGED minFrame
    \/ RecordSolution /\ UNCHANGED minFrame

\* The goroutine of Minimize keeps running, whatever the others do.
Minimizing == MinimizeBounds \/ IsFeasibleUpperBound \/ Bisect \/ MinimizeReturn

SpecMin ==
    InitMin /\ [][NextMin]_vars /\ WF_vars(Minimizing /\ UNCHANGED minFrame)

(***************************************************************************)
(* Reading an array of the engine (SpecLits): one call of litArrayToSlice  *)
(* on a nil pointer or on memory of any content, terminated or not.        *)
(***************************************************************************)

\* The largest maxLen, and the elements of memory a call can reach.
MaxLits == 2
MemoryLen == MaxLits + 2

Memories == [1..MemoryLen -> {0, 1, -2}]

litArrayToSliceCall ==
    /\ conv.pc = "start"
    /\ LET r == litArrayToSlice(conv.litPtr, conv.maxLen)
       IN conv' = [conv EXCEPT !.pc = "done", !.how = r.how, !.lits = r.lits,
                               !.read = r.read]

litsFrame ==
    <<p, couldHaveFailedAssumptions, eng, propLimit, lastCall, histVars,
      lock, pc, op, outcome, step, resets, resetOnNil, armed, reachable, bridge,
      minimize>>

InitLits ==
    /\ p = "live"
    /\ couldHaveFailedAssumptions = FALSE
    /\ eng = EngineInit
    /\ propLimit = FALSE
    /\ lastCall = NoCall
    /\ lock = [writer |-> 0, readers |-> {}]
    /\ pc = [t \in Threads |-> "idle"]
    /\ op = [t \in Threads |-> "none"]
    /\ outcome = [t \in Threads |-> "none"]
    /\ step = [t \in Threads |-> 1]
    /\ resets = 0
    /\ resetOnNil = FALSE
    /\ armed = TRUE
    /\ reachable = TRUE
    /\ given = Separate(<<>>)
    /\ forwarded = <<>>
    /\ emptyAdded = FALSE
    /\ yielded = <<>>
    /\ bridge = NoBridge
    /\ minimize = NoMinimize
    /\ conv \in {Conversion(a, n) : a \in Memories \cup {NULL}, n \in 0..MaxLits}

NextLits == litArrayToSliceCall /\ UNCHANGED litsFrame

SpecLits == InitLits /\ [][NextLits]_vars

(***************************************************************************)
(* Properties of the lock and of the handle (SpecConc).                    *)
(***************************************************************************)

C2_NoEngineCallWithoutHandle ==
    \A t \in Threads : (pc[t] = "engine" /\ op[t] \in PublicOps) => p = "live"

C2_PanicsWithoutHandle ==
    \A t \in Threads :
        (/\ op[t] \in PublicOps
         /\ pc[t] \in {"ready", "wwait"}
         /\ pc'[t] \notin {"ready", "wwait"}
         /\ p = "nil")
        => (pc'[t] = "idle" /\ outcome'[t] = "panic")

C3_ReleasedOnce == resets <= 1 /\ ~resetOnNil

\* C4: while a mutating method is inside the engine, no other call is.
C4_MutatorsAlone ==
    \A t \in Threads : \A u \in Threads \ {t} :
        (pc[t] = "engine" /\ op[t] \in MutatingOps) => pc[u] # "engine"

C4_Witness ==
    \E t \in Threads : \E u \in Threads \ {t} :
        /\ pc[t] = "engine" /\ op[t] \in MutatingOps
        /\ pc[u] \in {"ready", "wwait"}

BetweenCheckAndQuery(t) ==
    /\ op[t] \in {"FailedAssumption", "FailedAssumptions"}
    /\ pc[t] = "engine"
    /\ step[t] = 2

\* C38: from the test of res to the query of the engine, FailedAssumption
\* and FailedAssumptions hold the lock, and no AddClauses, Solve, Assume or
\* BlockSolution of another goroutine is inside the engine or enters it.
C38_CheckAndQueryUnderOneHold ==
    \A t \in Threads :
        BetweenCheckAndQuery(t) =>
            /\ t \in lock.readers
            /\ \A u \in Threads \ {t} :
                   op[u] \in {"AddClauses", "Solve", "Assume", "BlockSolution"}
                       => pc[u] \notin {"engine", "reenter"}

\* A Solve waits for the lock while another goroutine is between the two.
C38_Witness ==
    \E t \in Threads : \E u \in Threads \ {t} :
        /\ BetweenCheckAndQuery(t)
        /\ op[u] = "Solve"
        /\ pc[u] = "wwait"

\* C39: a goroutine that is in no call holds no part of the lock, also
\* after a call that panicked in ready or in its body: when no call is in
\* progress the lock is free.
C39_LockFreeWhenIdle ==
    /\ \A t \in Threads :
           pc[t] = "idle" => (lock.writer # t /\ t \notin lock.readers)
    /\ (\A t \in Threads : pc[t] = "idle") => lock = [writer |-> 0, readers |-> {}]

\* A call has panicked in its body and a mutating method of another
\* goroutine has since got the lock.
C39_Witness ==
    \E t \in Threads : \E u \in Threads \ {t} :
        /\ outcome[t] = "panic in body"
        /\ pc[t] = "idle"
        /\ pc[u] = "engine"
        /\ op[u] \in MutatingOps

\* C11: a goroutine never asks for the session lock while it holds it: no
\* method is ever waiting in a second call of ready, and a goroutine that
\* waits in its first call of ready holds the lock in neither mode.
C11_NoLockReentry ==
    \A t \in Threads :
        /\ pc[t] # "reenter"
        /\ pc[t] = "ready" => (t \notin lock.readers /\ lock.writer # t)

C11_Witness ==
    \E t \in Threads : \E u \in Threads \ {t} :
        /\ op[t] = "FailedAssumption" /\ pc[t] = "engine" /\ step[t] = 2
        /\ t \in lock.readers
        /\ lock.writer = u /\ pc[u] = "wwait"

C17_NoMutationDuringSolve ==
    \A t \in Threads :
        (op[t] = "Solve" /\ pc[t] = "engine" /\ step[t] > 1) =>
            /\ lock.writer = t
            /\ p' = p
            /\ \A u \in Threads \ {t} :
                  /\ op[u] \in MutatingOps \cup {"Delete"} =>
                        (pc[u] # "engine" /\ step'[u] = step[u])
                  /\ op'[u] \in MutatingOps \cup {"Delete"} => pc'[u] # "engine"

\* C17: from the return of picosat_sat inside Solve until Solve's deferred
\* unlock, which is after it has read the variable count and every
\* assignment, the caller holds the lock exclusively, no mutating method of
\* another goroutine makes a call into the engine, and the handle stays.
C17_SolveIsAtomic == [][C17_NoMutationDuringSolve]_vars

C17_Witness ==
    \E t \in Threads : \E u \in Threads \ {t} :
        /\ op[t] = "Solve" /\ pc[t] = "engine" /\ step[t] = 3
        /\ op[u] \in MutatingOps /\ pc[u] = "ready"

(***************************************************************************)
(* Properties of the failed-assumption window (Spec).                      *)
(***************************************************************************)

FailedQueries == {"FailedAssumption", "FailedAssumptions"}

\* C1: FailedAssumption and FailedAssumptions reach the engine's
\* failed-assumption query only when picosat_res is Unsatisfiable and
\* couldHaveFailedAssumptions is true; otherwise they answer by themselves.
C1_QueryOnlyInsideWindow ==
    (lastCall.op \in FailedQueries
        /\ ~(lastCall.resBefore = Unsatisfiable /\ lastCall.flagBefore))
    => ~lastCall.queried

\* C6: couldHaveFailedAssumptions is false whenever picosat_res is not
\* Unsatisfiable.
C6_FlagOnlyWhenUnsatisfiable ==
    couldHaveFailedAssumptions => PicosatRes(eng) = Unsatisfiable

\* C7: once AddClauses, Assume or Solve has followed the Solve that returned
\* Unsatisfiable, FailedAssumption returns false and FailedAssumptions
\* returns the empty list, until a later Solve returns Unsatisfiable.
C7_EmptyAfterInvalidation ==
    /\ (lastCall.op = "FailedAssumption" /\ lastCall.invalidated)
          => (lastCall.how = "return" /\ lastCall.ret = FALSE)
    /\ (lastCall.op = "FailedAssumptions" /\ lastCall.invalidated)
          => (lastCall.how = "return" /\ lastCall.ret = <<>>)

\* C8: right after Solve returns, couldHaveFailedAssumptions is true exactly
\* when the status is Unsatisfiable, and only Satisfiable carries a Solution.
C8_SolveSetsFlag ==
    lastCall.op = "Solve" =>
        /\ couldHaveFailedAssumptions = (lastCall.ret.status = Unsatisfiable)
        /\ lastCall.ret.status \in {Unknown, Unsatisfiable}
              => DOMAIN lastCall.ret.solution = {}

C8_Witness ==
    /\ lastCall.op = "Solve"
    /\ lastCall.flagBefore
    /\ lastCall.ret.status \in {Satisfiable, Unknown}

\* C9: every Assume leaves couldHaveFailedAssumptions false.
C9_AssumeClearsFlag ==
    lastCall.op = "Assume" => ~couldHaveFailedAssumptions

RECURSIVE Pow2(_)
Pow2(n) == IF n = 0 THEN 1 ELSE 2 * Pow2(n - 1)

C12_NoRepeatBounded ==
    /\ \A i \in 1..Len(yielded) : \A j \in 1..Len(yielded) :
          i # j => yielded[i] # yielded[j]
    /\ Len(yielded) <= Pow2(PicosatVariables(eng))

C12_LoopEnds ==
    lastCall.op = "Solve" /\ lastCall.ret.status # Satisfiable

\* C12: in the loop of Solve and BlockSolution on one formula, no Solution
\* is returned twice (so none that was passed to BlockSolution comes back),
\* at most 2^n Solutions are returned for n variables, and the loop reaches
\* a Solve whose status is not Satisfiable.
C12_EnumerationEnds == [] C12_NoRepeatBounded /\ <> C12_LoopEnds

C12_Witness ==
    /\ Len(yielded) >= 3
    /\ lastCall.op = "Solve"
    /\ lastCall.ret.status = Unsatisfiable

\* A Solution makes a Clause true: one of its Literals before the
\* terminator is positive on a true variable or negative on a false one.
Satisfies(solution, clause) ==
    \E i \in 1..Len(clause) :
        /\ \A j \in 1..i : clause[j] # 0
        /\ Abs(clause[i]) \in DOMAIN solution
        /\ IF clause[i] > 0 THEN solution[clause[i]] ELSE ~solution[-clause[i]]

\* C13: every Solution returned as Satisfiable makes true every Clause of
\* the Formula that was added, as the caller passed it, and every clause an
\* earlier BlockSolution added.
C13_SolutionSatisfiesFormula ==
    \A k \in 1..Len(yielded) :
        /\ \A i \in 1..Len(given.hdr) :
              Satisfies(yielded[k], ClauseAt(given.mem, given.hdr[i]))
        /\ \A j \in 1..(k - 1) :
              Satisfies(yielded[k],
                        BlockingClause(PicosatVariables(eng), yielded[j]))

C13_Witness ==
    /\ Len(yielded) >= 2
    /\ Len(given.hdr) >= 2
    /\ lastCall.op = "Solve"
    /\ lastCall.ret.status = Satisfiable

C14_WrongLengthStep ==
    lastCall'.op = "BlockSolution" =>
        IF Cardinality(DOMAIN lastCall'.arg) # PicosatVariables(eng) + 1
        THEN /\ lastCall'.ret = "error"
             /\ eng' = eng
             /\ couldHaveFailedAssumptions' = couldHaveFailedAssumptions
        ELSE lastCall'.ret = "nil"

\* C14: BlockSolution of a Solution whose length is not Variables()+1
\* returns the length error and leaves the engine (clauses, their count, the
\* solve state) and couldHaveFailedAssumptions as they were; with the right
\* length it returns nil.
C14_WrongLengthChangesNothing == [][C14_WrongLengthStep]_vars

C14_Witness ==
    /\ lastCall.op = "BlockSolution"
    /\ lastCall.ret = "error"
    /\ lastCall.flagBefore
    /\ PicosatVariables(eng) >= 1

C15_SolveStep ==
    lastCall'.op = "Solve" =>
        /\ PicosatAddedOriginalClauses(eng') = PicosatAddedOriginalClauses(eng)
        /\ eng'.clauses = eng.clauses

\* C15: Solve adds no clause: the number of added clauses and the clauses
\* themselves are the same before and after every Solve, whatever it returns.
C15_SolveAddsNoClause == [][C15_SolveStep]_vars

C15_Witness ==
    /\ lastCall.op = "Solve"
    /\ lastCall.ret.status = Satisfiable
    /\ lastCall.addedBefore >= 1
    /\ PicosatAddedOriginalClauses(eng) = lastCall.addedBefore

\* C16: a Solve that returns Satisfiable returns a Solution of length
\* Variables()+1 whose element 0 is false; any other Solve returns nil.
C16_SolutionShape ==
    lastCall.op = "Solve" =>
        IF lastCall.ret.status = Satisfiable
        THEN /\ DOMAIN lastCall.ret.solution = 0..PicosatVariables(eng)
             /\ ~lastCall.ret.solution[0]
        ELSE DOMAIN lastCall.ret.solution = {}

C16_Witness ==
    /\ lastCall.op = "Solve"
    /\ lastCall.ret.status = Satisfiable
    /\ PicosatVariables(eng) = 2
    /\ lastCall.ret.solution[2]

\* What Res returns before the first Solve and right after a Solve.
C25_ResFollowsSolve ==
    (lastCall'.op = "Res" /\ lastCall.op # "Res") =>
        /\ lastCall.op = "AddClauses" => lastCall'.ret = Unknown
        /\ lastCall.op = "Solve" => lastCall'.ret = lastCall.ret.status

\* C25 as stated: Res returns Unknown while Solve has not been called, the
\* status Solve returned right after a Solve, and Unsatisfiable once the
\* loop of Solve and BlockSolution has ended.
C25_ResAfterLoopUnsatisfiable ==
    [][/\ C25_ResFollowsSolve
       /\ (/\ lastCall'.op = "Res"
           /\ lastCall.op = "Solve"
           /\ lastCall.ret.status # Satisfiable) =>
              lastCall'.ret = Unsatisfiable]_vars

\* C25 amended: Res returns Unknown while Solve has not been called and the
\* status Solve returned right after a Solve; once the loop has ended that
\* is Unsatisfiable on a session without a propagation limit, and
\* Unsatisfiable or Unknown on a session with one.
C25_ResAfterLoopLastStatus ==
    [][/\ C25_ResFollowsSolve
       /\ (/\ lastCall'.op = "Res"
           /\ lastCall.op = "Solve"
           /\ lastCall.ret.status # Satisfiable) =>
              /\ lastCall'.ret \in {Unsatisfiable, Unknown}
              /\ ~propLimit => lastCall'.ret = Unsatisfiable]_vars

\* Res after the Solve that ended a loop over two Solutions.
C25_Witness ==
    /\ lastCall.op = "Res"
    /\ lastCall.stateBefore = "UNSAT"
    /\ lastCall.ret = Unsatisfiable
    /\ Len(yielded) >= 2

(***************************************************************************)
(* Properties of the maximal satisfiable subsets (SpecMss).                *)
(***************************************************************************)

\* M is a subset of the assumptions that the clauses allow and that cannot
\* be extended by another assumption.
IsMaximalSatisfiable(M, cls, e) ==
    /\ M \subseteq e.als
    /\ Models(cls, M, e.vars) # {}
    /\ \A a \in e.als \ M : Models(cls, M \cup {a}, e.vars) = {}

C26_OnePerSubset ==
    /\ (/\ lastCall.op = "NextMaxSatisfiableAssumptions"
        /\ lastCall.how = "return"
        /\ lastCall.ret # <<>>) =>
           PicosatAddedOriginalClauses(eng) = lastCall.addedBefore + 1
    /\ \A i \in 1..Len(yielded) : \A j \in 1..Len(yielded) :
          i # j => Range(yielded[i]) # Range(yielded[j])
    /\ \A i \in 1..Len(yielded) :
          IsMaximalSatisfiable(Range(yielded[i]), GivenClauses, eng)

C26_Exhausted ==
    /\ lastCall.op = "NextMaxSatisfiableAssumptions"
    /\ lastCall.how = "return"
    /\ lastCall.ret = <<>>

\* C26: in a loop of NextMaxSatisfiableAssumptions on fixed assumptions,
\* every call that returns a subset adds one clause, no subset is returned
\* twice, every subset returned is a maximal satisfiable subset of the
\* assumptions, and the loop reaches a call that returns the empty list.
C26_EnumeratesSubsets == [] C26_OnePerSubset /\ <> C26_Exhausted

C27_CountKept ==
    lastCall.op \in {"Assume", "MaxSatisfiableAssumptions"} =>
        PicosatAddedOriginalClauses(eng) = lastCall.addedBefore

C27_SameSubset ==
    (/\ lastCall.op = "MaxSatisfiableAssumptions"
     /\ lastCall'.op = "MaxSatisfiableAssumptions"
     /\ lastCall.how = "return"
     /\ lastCall'.how = "return") => Range(lastCall'.ret) = Range(lastCall.ret)

C35_EmptyWithoutEngine ==
    (/\ eng.mtcls
     /\ lastCall' # lastCall
     /\ lastCall'.op \in {"MaxSatisfiableAssumptions",
                          "NextMaxSatisfiableAssumptions"})
    => /\ lastCall'.how = "return"
       /\ lastCall'.ret = <<>>
       /\ ~lastCall'.queried
       /\ eng' = eng

\* C35: called on a formula the engine reports inconsistent,
\* MaxSatisfiableAssumptions and NextMaxSatisfiableAssumptions return the
\* empty list, make no call of the engine's subset operations and add no
\* clause.
C35_InconsistentShortCircuits == [][C35_EmptyWithoutEngine]_vars

\* NextMaxSatisfiableAssumptions answering by itself after it has
\* enumerated at least one subset.
C35_Witness ==
    /\ lastCall.op = "NextMaxSatisfiableAssumptions"
    /\ ~lastCall.queried
    /\ lastCall.ret = <<>>
    /\ eng.mtcls
    /\ Len(yielded) > 0

(***************************************************************************)
(* Properties of ingestion (SpecAdd).                                      *)
(***************************************************************************)

\* The Literals of an array up to, not including, its first 0.
RECURSIVE UpToZero(_, _)
UpToZero(lits, i) ==
    IF i > Len(lits) \/ lits[i] = 0 THEN <<>>
    ELSE <<lits[i]>> \o UpToZero(lits, i + 1)

\* C18: AddClauses hands the engine, for every non-empty Clause it was
\* passed, that Clause with a 0 appended only if it did not end with one, so
\* that the engine reads the Literals before the first 0 of the Clause as
\* passed; every Clause counts as one added clause.
C18_ForwardedAsPassed ==
    lastCall.op = "AddClauses" =>
        /\ Len(forwarded) = Len(given.hdr)
        /\ PicosatAddedOriginalClauses(eng) = lastCall.addedBefore + Len(given.hdr)
        /\ \A i \in 1..Len(given.hdr) :
              LET c == ClauseAt(given.mem, given.hdr[i])
              IN Len(c) > 0 =>
                    /\ forwarded[i] = IF c[Len(c)] = 0 THEN c ELSE Append(c, 0)
                    /\ UpToZero(forwarded[i], 1) = UpToZero(c, 1)
                    /\ LitsBeforeZero(c, 1) \in eng.clauses

\* The caller's backing arrays as the call of AddClauses on given has left
\* them.
GivenAfter == AddClausesRun(given).mem

\* C40: after AddClauses every Clause of the Formula passed holds the
\* Literals it held before, and every Clause was ingested with those
\* Literals, also when the Clauses are windows on one array.
C40_FormulaNotModified ==
    lastCall.op = "AddClauses" =>
        \A i \in 1..Len(given.hdr) :
            LET c == ClauseAt(given.mem, given.hdr[i])
            IN /\ ClauseAt(GivenAfter, given.hdr[i]) = c
               /\ i <= Len(forwarded) =>
                      LitsBeforeZero(forwarded[i], 1) = LitsBeforeZero(c, 1)

\* C19: AddClauses hands the engine the array holding only a 0 for every
\* empty Clause and counts it as an added clause; once an empty Clause was
\* added, every Solve returns Unsatisfiable and nil.
C19_EmptyClauseMakesUnsatisfiable ==
    /\ lastCall.op = "AddClauses" =>
          /\ Len(forwarded) = Len(given.hdr)
          /\ PicosatAddedOriginalClauses(eng) = lastCall.addedBefore + Len(given.hdr)
          /\ \A i \in 1..Len(given.hdr) :
                given.hdr[i].len = 0 => (forwarded[i] = <<0>> /\ {} \in eng.clauses)
    /\ (lastCall.op = "Solve" /\ emptyAdded) =>
          /\ lastCall.ret.status = Unsatisfiable
          /\ DOMAIN lastCall.ret.solution = {}

C19_Witness ==
    /\ lastCall.op = "Solve"
    /\ emptyAdded
    /\ propLimit
    /\ Len(given.hdr) = 2 /\ given.hdr[1].len > 0 /\ given.hdr[2].len = 0
    /\ eng.als # {}

(***************************************************************************)
(* Properties of the output bridge (SpecBridge).                           *)
(***************************************************************************)

C20_Delivered ==
    (bridge.pc = "done" /\ bridge.faults = <<>>) =>
        /\ bridge.w = [i \in 1..bridge.size |-> i]
        /\ bridge.ret = "nil"

\* C20: every call of cFileWriterWrapper returns, whatever the number of
\* bytes the write function produces; and a call in which no step failed
\* has written exactly those bytes to w, in order, and returns nil.
C20_BridgeTerminatesAndDelivers ==
    [] C20_Delivered /\ <> (bridge.pc = "done")

\* C21: a call of cFileWriterWrapper in which steps failed returns the error
\* of the step that failed first; no later failure replaces it, and it is
\* never replaced by nil.
C21_FirstErrorReturned ==
    (bridge.pc = "done" /\ bridge.faults # <<>>) =>
        bridge.ret = bridge.faults[1]

C22_WriteFnErrorReturned ==
    (/\ bridge.pc = "done"
     /\ bridge.faults # <<>>
     /\ bridge.faults[Len(bridge.faults)] = "writeFn") => bridge.ret = "writeFn"

C36_DestinationErrorReturns ==
    (bridge.e = "copy") ~> (bridge.pc = "done" /\ bridge.ret = "copy")

(***************************************************************************)
(* Properties of writing cores and traces (SpecTrace).                     *)
(***************************************************************************)

\* C23: a call of WriteClausalCore, WriteCompactTrace or WriteExtendedTrace
\* that finds picosat_res different from Unsatisfiable returns an error; it
\* makes no pipe and does not call the engine's write function.
C23_NotUnsatisfiableFailsAtOnce ==
    (lastCall.op \in WriteOps /\ lastCall.resBefore # Unsatisfiable) =>
        /\ lastCall.how = "return"
        /\ lastCall.ret = "error"
        /\ bridge = NoBridge
        /\ ~eng.aborted

\* A core requested after a Solve that returned Satisfiable, on a session
\* with trace generation.
C23_Witness ==
    /\ lastCall.op = "WriteClausalCore"
    /\ lastCall.resBefore = Satisfiable
    /\ lastCall.ret = "error"
    /\ eng.trace

\* C24: on a session made without EnableTrace, WriteClausalCore,
\* WriteCompactTrace and WriteExtendedTrace return an error and do not call
\* the engine's write function, whatever the last Solve returned.
C24_NoTraceFailsAtOnce ==
    (lastCall.op \in WriteOps /\ ~eng.trace) =>
        /\ lastCall.how = "return"
        /\ lastCall.ret = "error"
        /\ bridge = NoBridge
        /\ ~eng.aborted

(***************************************************************************)
(* Properties of the bisection search (SpecMin).                           *)
(***************************************************************************)

\* The least K from which m.IsFeasible is Satisfiable throughout,
\* MaxInt + 1 if there is none.
Threshold(m) ==
    CHOOSE K \in MinInt..(MaxInt + 1) :
        /\ \A k \in Ints : k >= K => m.status[k] = Satisfiable
        /\ K = MinInt \/ m.status[K - 1] # Satisfiable

\* IsFeasible(k) is Unsatisfiable for k < K and Satisfiable for k >= K.
Monotone(m) ==
    \E K \in MinInt..(MaxInt + 1) :
        \A k \in Ints :
            m.status[k] = IF k >= K THEN Satisfiable ELSE Unsatisfiable

LargerOf(a, b) == IF a >= b THEN a ELSE b

\* C28: on a monotone predicate with threshold K and bounds lo <= hi,
\* Minimize returns K when lo <= K <= hi and lo when K <= lo.
C28_MinimizeFindsThreshold ==
    (/\ minimize.pc = "start"
     /\ minimize.m.lower <= minimize.m.upper
     /\ Monotone(minimize.m)
     /\ Threshold(minimize.m) <= minimize.m.upper)
    ~> (/\ minimize.pc = "returned"
        /\ minimize.min = LargerOf(Threshold(minimize.m), minimize.m.lower))

\* C29: Minimize returns feasible = false exactly when IsFeasible of the
\* upper bound is not Satisfiable, and then it returns the upper bound and
\* optimal = false after that one evaluation.
C29_InfeasibleAfterOneEvaluation ==
    minimize.pc = "returned" =>
        LET status == minimize.m.status[minimize.m.upper]
        IN /\ ~minimize.feasible <=> status # Satisfiable
           /\ ~minimize.feasible =>
                  /\ minimize.min = minimize.m.upper
                  /\ ~minimize.optimal
                  /\ minimize.evaluations = 1
                  /\ minimize.evaluated = {<<minimize.m.upper, status>>}

\* A search between distinct bounds that ended on Unknown at the upper one.
C29_Witness ==
    /\ minimize.pc = "returned"
    /\ ~minimize.feasible
    /\ minimize.m.lower < minimize.m.upper
    /\ minimize.m.status[minimize.m.upper] = Unknown

\* Some evaluation below the returned min had a status of the set S.
EvaluatedBelowMin(S) ==
    \E e \in minimize.evaluated : e[1] < minimize.min /\ e[2] \in S

\* On a monotone predicate with threshold K, optimal is lo < K <= hi.
C30_OptimalOnMonotone ==
    (minimize.pc = "returned" /\ Monotone(minimize.m)) =>
        (minimize.optimal <=>
            /\ minimize.m.lower < Threshold(minimize.m)
            /\ Threshold(minimize.m) <= minimize.m.upper)

Seen(call, a, n) ==
    Cardinality({i \in 1..n :
        minimize.events[i] = [call |-> call, k |-> a[1], status |-> a[2]]})

\* Less than MaxEvaluations evaluations so far: nothing has been left out
\* of the counts.
Counted == minimize.evaluations < MaxEvaluations

\* C31: for every k and status, the RecordSolution calls issued (run or
\* still to run) are as many as the IsFeasible evaluations that returned
\* them, and none has run before its evaluation.
C31_RecordedOncePerEvaluation ==
    Counted =>
        \A a \in Ints \X Statuses :
            LET n == Len(minimize.events)
            IN /\ CopiesIn(a, minimize.go) + Seen("RecordSolution", a, n)
                      = Seen("IsFeasible", a, n)
               /\ \A i \in 1..n :
                      Seen("RecordSolution", a, i) <= Seen("IsFeasible", a, i)

\* A search of three evaluations, one recorded and one not yet.
C31_Witness ==
    /\ minimize.pc = "returned"
    /\ minimize.evaluations = 3
    /\ minimize.go # EmptyBag
    /\ \E i \in 1..Len(minimize.events) : minimize.events[i].call = "RecordSolution"

\* C32: when Minimize returns every RecordSolution it issued has run, and
\* the calls m has seen are pairs of an IsFeasible and the RecordSolution
\* with the same arguments.
C32_RecordedBeforeNextEvaluation ==
    /\ minimize.pc = "returned" => minimize.go = EmptyBag
    /\ \A i \in 1..Len(minimize.events) :
           IF i % 2 = 1
           THEN minimize.events[i].call = "IsFeasible"
           ELSE minimize.events[i] =
                    [minimize.events[i - 1] EXCEPT !.call = "RecordSolution"]

\* C33: with UpperBound() < LowerBound() Minimize panics, and it has called
\* neither IsFeasible nor RecordSolution; it panics in no other case.
C33_PanicsBeforeEvaluating ==
    /\ minimize.m.upper < minimize.m.lower =>
           /\ minimize.pc \in {"start", "panic"}
           /\ minimize.events = <<>>
           /\ minimize.evaluated = {}
           /\ minimize.go = EmptyBag
    /\ minimize.pc = "panic" => minimize.m.upper < minimize.m.lower

C33_Witness ==
    /\ minimize.pc = "panic"
    /\ minimize.m.upper < minimize.m.lower
    /\ minimize.m.status[minimize.m.upper] = Satisfiable

(***************************************************************************)
(* Properties of litArrayToSlice (SpecLits).                               *)
(***************************************************************************)

\* The index, counted from 0, of the first 0 in memory a, MemoryLen if
\* there is none.
FirstZero(a) ==
    IF \E i \in 1..MemoryLen : a[i] = 0
    THEN (CHOOSE i \in 1..MemoryLen : a[i] = 0 /\ \A j \in 1..(i - 1) : a[j] # 0) - 1
    ELSE MemoryLen

\* C34: litArrayToSlice panics on a nil pointer; with the first 0 at index
\* t <= maxLen it returns the t literals before it; with no 0 among the
\* indices 0..maxLen it panics; it returns at most maxLen literals and
\* reads no element at an index above maxLen.
C34_ReadsWithinMaxLen ==
    conv.pc = "done" =>
        IF conv.litPtr = NULL THEN conv.how = "panic"
        ELSE LET t == FirstZero(conv.litPtr)
             IN /\ t <= conv.maxLen =>
                       /\ conv.how = "return"
                       /\ conv.lits = SubSeq(conv.litPtr, 1, t)
                /\ t > conv.maxLen => conv.how = "panic"
                /\ Len(conv.lits) <= conv.maxLen
                /\ conv.read <= conv.maxLen + 1

\* The k of the IsFeasible calls m has seen, in their order.
EvaluatedAt ==
    LET calls == SelectSeq(minimize.events, LAMBDA e : e.call = "IsFeasible")
    IN [i \in 1..Len(calls) |-> calls[i].k]

Within(k) == minimize.m.lower <= k /\ k <= minimize.m.upper

C37_WithinBounds ==
    /\ \A i \in 1..Len(EvaluatedAt) :
           /\ Within(EvaluatedAt[i])
           /\ \A j \in 1..(i - 1) : EvaluatedAt[j] # EvaluatedAt[i]
    /\ minimize.pc = "returned" => Within(minimize.min)

C37_Shrinks ==
    (minimize.pc = "loop" /\ minimize'.pc = "loop"
     /\ minimize'.evaluated # minimize.evaluated) =>
        /\ minimize.lo <= minimize'.lo
        /\ minimize'.hi <= minimize.hi
        /\ minimize'.hi - minimize'.lo < minimize.hi - minimize.lo

\* C37: between bounds lo <= hi Minimize returns; every k it evaluates lies
\* within the bounds and is evaluated once, each round of the loop narrows
\* the interval, and the min returned lies within the bounds.
C37_MinimizeTerminates ==
    /\ [] C37_WithinBounds
    /\ [][C37_Shrinks]_vars
    /\ (minimize.m.lower <= minimize.m.upper) => <> (minimize.pc = "returned")

====
